---- MODULE Spec2Model ----
(***************************************************************************)
(* Two-tier FAISS index manager (src/faiss_index_manager.py).              *)
(*                                                                         *)
(* The data directory (disk) and one TwoTierFAISSManager object (mem) are  *)
(* modelled separately: every handler reads through the lazy loaders and   *)
(* writes the files it writes in the code.  An ANN container is the        *)
(* sequence of its (normalised) vectors; its metadata file is the sequence *)
(* of metadata dicts; positions are 1-based here and 0-based in the code.  *)
(***************************************************************************)
EXTENDS Integers, Sequences, FiniteSets, TLC

\* ------------------------------------------------------------------ bounds
\* Largest number of vectors the two tiers may hold together.
MaxVectors == 2
\* Largest number of chunks of one file handed to add_chunks / rebuild_major.
MaxChunks == 2
\* Largest top_k a search is called with.
MaxTopK == 2
\* Latest mtime a file of the scanned directory reaches.
MaxMtime == 2
\* Most process_single_file calls made directly, outside a scan.
MaxCalls == 2
\* Most scan_directory calls.
MaxScans == 2
\* The longest source text and the longest document handed to the chunker.
MaxCodeLen == 10
MaxProseLen == 5
\* The longest chunk list stored for a file, and the widest context asked for
\* on either side of a chunk.
MaxEnvelopes == 3
MaxAdjacent == 2
\* The deepest directory asked about, in names below the root.
MaxDepth == 3
\* The longest list of sources of one log_autograph call.
MaxSources == 2

FilePaths == {"a", "b"}
\* file_hash arguments; NoHash is Python's None.
NoHash == "None"
FileHashes == {NoHash, "h1"}
\* Raw (un-normalised) embeddings and queries: axis-aligned integer vectors.
RawEmbeddings == {<<2, 0>>, <<0, 3>>}
RawQueries == {<<5, 0>>}

\* ------------------------------------------------------------- primitives
Min(a, b) == IF a < b THEN a ELSE b
Max(a, b) == IF a > b THEN a ELSE b

Range(s) == {s[i] : i \in DOMAIN s}

\* Python's None / a present value.
None == [some |-> FALSE, val |-> <<>>]
Some(v) == [some |-> TRUE, val |-> v]

Sgn(x) == IF x > 0 THEN 1 ELSE IF x < 0 THEN -1 ELSE 0

\* faiss.normalize_L2 on an axis-aligned vector: the unit vector of its axis.
NormalizeL2(v) == [i \in DOMAIN v |-> Sgn(v[i])]

\* IndexFlatIP's metric: the inner product.
InnerProduct(u, v) == u[1] * v[1] + u[2] * v[2]

\* IndexState() with its dataclass defaults.  A timestamp is modelled by
\* whether it is set.  An indexed_file_hashes entry without a 'hash' key
\* reads as '' through .get('hash', ''), and is stored as "".
EmptyIndexState ==
    [major_build_timestamp |-> FALSE,
     minor_build_timestamp |-> FALSE,
     major_vector_count |-> 0,
     minor_vector_count |-> 0,
     indexed_file_hashes |-> << >>,
     stale_vector_ids |-> << >>]

NoState == [some |-> FALSE, val |-> EmptyIndexState]

\* ------------------------------------------------------------------- state
VARIABLES
    disk,   \* the files of the data directory and of the knowledge graph
    mem,    \* the manager object's lazily loaded fields
    ret,    \* the last call and what it returned
    alloc,  \* history: the vector ids handed out so far
    threads, \* per thread inside a call: where it stands, and its locals
    search, \* a search running beside a writer: its position and locals
    compactor, \* a compact() running beside a search: position and locals
    tree,   \* the scanned directory: what each file holds right now
    store,  \* the SQLite database of file_metadata_content.py
    scan,   \* scan_directory: coordinator, workers, shutdown flag
    workers, \* the pool's worker threads inside process_single_file
    server  \* the tool server's FileMetadataDB: its lazily loaded fields

\* The variables of the readers of the index: a search beside a compaction,
\* and the tool server.
readers == <<search, compactor, server>>
\* The variables of the metadata extractor (file_metadata_content.py).
storeVars == <<tree, store, scan, workers>>
\* The variables of the vector index (faiss_index_manager.py).
indexVars == <<disk, mem, ret, alloc, threads, readers>>
indexState == <<disk, mem, alloc, threads, readers>>

vars == <<disk, mem, ret, alloc, threads, search, compactor,
          tree, store, scan, workers, server>>

\* The knowledge graph directory before the first call.  nodes and edges: the
\* rows of nodes.csv and edges.csv; embedding_index: the node ids that have a
\* row in embeddings.npy, in row order; model: the manager has loaded its
\* embedding model (decided when it is built); damage: what is wrong with
\* edges.csv ("weight": a row whose weight is no number, "unwritable": the
\* file cannot be written).
EmptyGraph ==
    [nodes |-> << >>, edges |-> << >>, embedding_index |-> << >>,
     model |-> FALSE, damage |-> "none"]

EmptyDisk ==
    [major_index |-> None, major_meta |-> None,
     minor_index |-> None, minor_meta |-> None,
     state |-> NoState,
     legacy_index |-> None, legacy_meta |-> None,
     kg |-> EmptyGraph]

\* TwoTierFAISSManager.__init__: nothing is loaded.
NewManager ==
    [_major_index |-> None, _major_metadata |-> None,
     _minor_index |-> None, _minor_metadata |-> None,
     _state |-> NoState]

\* --------------------------------------------------------------- loaders
\* Mutant: from_dict forgets the stale ids.
FromDict_NoStaleIds(data) ==
    [major_build_timestamp |-> data.major_build_timestamp,
     minor_build_timestamp |-> data.minor_build_timestamp,
     major_vector_count |-> data.major_vector_count,
     minor_vector_count |-> data.minor_vector_count,
     indexed_file_hashes |-> data.indexed_file_hashes,
     stale_vector_ids |-> << >>]

\* IndexState.from_dict(data): each field from its key, the default of the
\* field for a key the file lacks.
FromDict(data) ==
    LET get(key, default) ==
            IF key \in DOMAIN data THEN data[key] ELSE default
    IN  [major_build_timestamp |-> get("major_build_timestamp", FALSE),
         minor_build_timestamp |-> get("minor_build_timestamp", FALSE),
         major_vector_count |-> get("major_vector_count", 0),
         minor_vector_count |-> get("minor_vector_count", 0),
         indexed_file_hashes |-> get("indexed_file_hashes", << >>),
         stale_vector_ids |-> get("stale_vector_ids", << >>)]

\* _load_state: the cached object, else the state file, else a new state.
LoadState(d, m) ==
    IF m._state.some THEN m._state.val
    ELSE IF d.state.some THEN FromDict(d.state.val)
    ELSE EmptyIndexState

\* _load_major_index: (index, metadata), also what the manager caches.
LoadMajor(d, m) ==
    IF m._major_index.some
    THEN [index |-> m._major_index, meta |-> m._major_metadata]
    ELSE IF ~d.major_index.some
    THEN [index |-> None, meta |-> None]
    ELSE [index |-> d.major_index,
          meta |-> IF d.major_meta.some THEN d.major_meta ELSE Some(<< >>)]

\* _load_minor_index
LoadMinor(d, m) ==
    IF m._minor_index.some
    THEN [index |-> m._minor_index, meta |-> m._minor_metadata]
    ELSE IF ~d.minor_index.some
    THEN [index |-> None, meta |-> None]
    ELSE [index |-> d.minor_index,
          meta |-> IF d.minor_meta.some THEN d.minor_meta ELSE Some(<< >>)]

\* ntotal of a loaded index, 0 for None (get_stats).
NTotal(ix) == IF ix.some THEN Len(ix.val) ELSE 0

\* The threads that share one manager object.
Threads == {1, 2}

\* The worker threads of the scan's pool (max_workers).
Workers == {1, 2}

\* A thread outside every call.
Idle ==
    [pc |-> "idle", chunks |-> << >>, file_hash |-> NoHash, base_id |-> 0,
     file_path |-> "", vector_ids |-> << >>]

\* No search and no compaction in steps.
NoSearch ==
    [pc |-> "idle", query_embedding |-> <<0, 0>>, top_k |-> 0,
     filter_stale |-> FALSE, stale_ids |-> {}, all_results |-> << >>,
     result |-> << >>, allowed |-> {}, closed |-> TRUE]
\* FileMetadataDB.__init__: nothing is loaded and no load was attempted.
\* FAISS_AVAILABLE: the module could import faiss, numpy, sentence_transformers
\* and the index manager; model_loads: SentenceTransformer('all-MiniLM-L6-v2')
\* can be built.
NoServer ==
    [faiss_manager |-> FALSE, sentence_model |-> FALSE,
     _faiss_load_attempted |-> FALSE,
     FAISS_AVAILABLE |-> TRUE, model_loads |-> TRUE]

NoCompact ==
    [pc |-> "idle", major_index |-> << >>, major_metadata |-> << >>,
     pre |-> [disk |-> EmptyDisk, mem |-> NewManager]]

\* The extractor before anything is scanned.

\* ----------------------------------------------------------------- inputs
\* The chunk dicts of one file as the callers pass them (build_faiss_index
\* groups the rows of one file, ordered by chunk_index): n chunks with
\* chunk_index 0 .. n-1, each with the embedding computed for it.
ChunkLists(file_path) ==
    UNION {{[i \in 1..n |->
                [file_path |-> file_path, chunk_index |-> i - 1,
                 embedding |-> e[i]]] : e \in [1..n -> RawEmbeddings]}
           : n \in 0..MaxChunks}

\* add_chunks is called with the chunks of one file.
AddInputs == UNION {ChunkLists(f) : f \in FilePaths}

\* rebuild_major is called with the chunks of all files, ordered by path,
\* embedded afresh: here the chunks of one file share the file's embedding.
StoredChunks(file_path) ==
    {c \in ChunkLists(file_path) :
        \A i \in DOMAIN c :
            c[i].embedding = IF file_path = "a" THEN <<2, 0>> ELSE <<0, 3>>}

RebuildInputs ==
    {ca \o cb : ca \in StoredChunks("a"), cb \in StoredChunks("b")}

\* A legacy single-index directory: file_search.faiss plus
\* file_search_meta.json whose entries carry 'id' = position.
LegacyInputs == {c \in RebuildInputs : Len(c) = 2}

\* ------------------------------------------------------------- add_chunks
\* Mutant: the Major count is left out of the id base.
BaseId_MinorOnly(state) == state.minor_vector_count

\* The id of the first new vector.
BaseId(state) == state.major_vector_count + state.minor_vector_count

\* Mutant: every call numbers its chunks from 0.
NewMeta_FromZero(chunks, base_id) ==
    [i \in 1..Len(chunks) |->
        [id |-> i - 1,
         file_path |-> chunks[i].file_path,
         chunk_index |-> chunks[i].chunk_index]]

\* The metadata dicts built for chunks, numbered from base_id.
NewMeta(chunks, base_id) ==
    [i \in 1..Len(chunks) |->
        [id |-> base_id + (i - 1),
         file_path |-> chunks[i].file_path,
         chunk_index |-> chunks[i].chunk_index]]

\* embeddings.astype('float32'); faiss.normalize_L2(embeddings)
Normalized(chunks) ==
    [i \in 1..Len(chunks) |-> NormalizeL2(chunks[i].embedding)]

\* 'hash': file_hash or ''
HashOrEmpty(file_hash) == IF file_hash = NoHash THEN "" ELSE file_hash

\* indexed_file_hashes[file_path] = info
SetEntry(files, file_path, info) ==
    [p \in (DOMAIN files) \cup {file_path} |->
        IF p = file_path THEN info ELSE files[p]]

\* del indexed_file_hashes[file_path]
DelEntry(files, file_path) ==
    [p \in (DOMAIN files) \ {file_path} |-> files[p]]

\* Mutant: a re-indexed file's old vectors are not marked stale.
AddChunksState_KeepsOld(state, file_path, file_hash, new_ids, ntotal) ==
    [state EXCEPT
        !.minor_vector_count = ntotal,
        !.minor_build_timestamp = TRUE,
        !.indexed_file_hashes =
            [p \in (DOMAIN @) \cup {file_path} |->
                IF p = file_path
                THEN [hash |-> IF file_hash = NoHash THEN "" ELSE file_hash,
                      tier |-> "minor", vector_ids |-> new_ids]
                ELSE @[p]]]

\* The state object after add_chunks' state update.
AddChunksState(state, file_path, file_hash, new_ids, ntotal) ==
    [state EXCEPT
        !.minor_vector_count = ntotal,
        !.minor_build_timestamp = TRUE,
        !.stale_vector_ids =
            IF file_path \in DOMAIN state.indexed_file_hashes
            THEN @ \o state.indexed_file_hashes[file_path].vector_ids
            ELSE @,
        !.indexed_file_hashes =
            SetEntry(@, file_path,
                [hash |-> HashOrEmpty(file_hash), tier |-> "minor",
                 vector_ids |-> new_ids])]

\* History of id allocation: ever = every id a call of add_chunks or
\* rebuild_major handed out, added = the ids add_chunks handed out, epoch =
\* the ids in use since the last rebuild_major (or the migration), last =
\* the ids the last call handed out.
Allocate(ids, fresh) ==
    [ever |-> alloc.ever \cup Range(ids),
     added |-> IF fresh THEN alloc.added ELSE alloc.added \cup Range(ids),
     epoch |-> IF fresh THEN Range(ids) ELSE alloc.epoch \cup Range(ids),
     last |-> ids]

AllocNothing == [alloc EXCEPT !.last = << >>]

\* add_chunks(chunks, embeddings, file_hash)
AddChunks(chunks, file_hash) ==
    IF Len(chunks) = 0
    THEN /\ ret' = [op |-> "add_chunks", args |-> << >>, value |-> <<0>>]
         /\ alloc' = AllocNothing
         /\ UNCHANGED <<threads, readers, storeVars>>
         /\ UNCHANGED <<disk, mem>>
    ELSE
    LET minor == LoadMinor(disk, mem)
        index == IF minor.index.some THEN minor.index.val ELSE << >>
        meta == IF minor.index.some THEN minor.meta.val ELSE << >>
        state == LoadState(disk, mem)
        base_id == BaseId(state)
        new_index == index \o Normalized(chunks)
        added == NewMeta(chunks, base_id)
        new_ids == [i \in 1..Len(chunks) |-> added[i].id]
        new_meta == meta \o added
        new_state ==
            AddChunksState(state, chunks[1].file_path, file_hash, new_ids,
                           Len(new_index))
    IN  /\ Len(new_index) + NTotal(LoadMajor(disk, mem).index) <= MaxVectors
        /\ mem' = [mem EXCEPT
                !._minor_index = Some(new_index),
                !._minor_metadata = Some(new_meta),
                !._state = [some |-> TRUE, val |-> new_state]]
        /\ disk' = [disk EXCEPT
                !.minor_index = Some(new_index),
                !.minor_meta = Some(new_meta),
                !.state = [some |-> TRUE, val |-> new_state]]
        /\ ret' = [op |-> "add_chunks",
                   args |-> <<chunks[1].file_path, file_hash>>,
                   value |-> <<Len(chunks)>>]
        /\ alloc' = Allocate(new_ids, FALSE)
        /\ UNCHANGED <<threads, readers, storeVars>>

\* The index dimension (embedding_dim); the vectors here have two
\* coordinates.
EmbeddingDim == 2

\* The shapes (rows, cols) of the embeddings array handed to add_chunks:
\* as many rows as chunks or one more, the index dimension or one more.
EmbeddingRows(chunks) == {Len(chunks), Len(chunks) + 1}
EmbeddingCols == {EmbeddingDim, EmbeddingDim + 1}

\* The two validations of add_chunks, in the code's order.
ShapeError(n, rows, cols) ==
    IF rows # n THEN "Mismatch"
    ELSE IF cols # EmbeddingDim THEN "Embedding dim mismatch"
    ELSE "ok"

\* add_chunks(chunks, embeddings, file_hash) with embeddings.shape =
\* (rows, cols): an empty chunk list returns 0 before any validation, a
\* wrong shape raises ValueError before anything is loaded, and the rest
\* is AddChunks (whose chunks carry one embedding each).
AddChunksChecked(chunks, rows, cols, file_hash) ==
    IF Len(chunks) = 0 \/ ShapeError(Len(chunks), rows, cols) = "ok"
    THEN AddChunks(chunks, file_hash)
    ELSE /\ ret' = [op |-> "raise", args |-> <<"add_chunks">>,
                    value |-> <<"ValueError",
                                ShapeError(Len(chunks), rows, cols)>>]
         /\ alloc' = AllocNothing
         /\ UNCHANGED <<threads, readers, storeVars>>
         /\ UNCHANGED <<disk, mem>>

\* -------------------------------------------------------- mark_file_stale
\* Mutant: the file's entry is not removed from the tracking map.
MarkStaleState_KeepsEntry(state, file_path) ==
    [state EXCEPT
        !.stale_vector_ids = @ \o state.indexed_file_hashes[file_path].vector_ids]

\* The state object after mark_file_stale's update of a tracked file.
MarkStaleState(state, file_path) ==
    [state EXCEPT
        !.stale_vector_ids = @ \o state.indexed_file_hashes[file_path].vector_ids,
        !.indexed_file_hashes = DelEntry(@, file_path)]

MarkFileStale(file_path) ==
    LET state == LoadState(disk, mem)
    IN  IF file_path \notin DOMAIN state.indexed_file_hashes
        THEN /\ mem' = [mem EXCEPT !._state = [some |-> TRUE, val |-> state]]
             /\ ret' = [op |-> "mark_file_stale", args |-> <<file_path>>,
                        value |-> << >>]
             /\ alloc' = AllocNothing
             /\ UNCHANGED <<threads, readers, storeVars>>
             /\ UNCHANGED disk
        ELSE
        LET vector_ids == state.indexed_file_hashes[file_path].vector_ids
            new_state == MarkStaleState(state, file_path)
        IN  /\ mem' = [mem EXCEPT !._state = [some |-> TRUE, val |-> new_state]]
            /\ disk' = [disk EXCEPT !.state = [some |-> TRUE, val |-> new_state]]
            /\ ret' = [op |-> "mark_file_stale", args |-> <<file_path>>,
                       value |-> vector_ids]
            /\ alloc' = AllocNothing
            /\ UNCHANGED <<threads, readers, storeVars>>

\* ---------------------------------------------------------------- compact
\* for file_path, info in indexed_file_hashes.items(): minor -> major
PromoteTiers(files) ==
    [p \in DOMAIN files |->
        IF files[p].tier = "minor" THEN [files[p] EXCEPT !.tier = "major"]
        ELSE files[p]]

\* Mutant: the merge replaces the major vectors by the minor's.
MergeFrom_DropsMajor(major_index, minor_index) == minor_index

\* major_index.merge_from(minor_index): the minor vectors follow the major's.
MergeFrom(major_index, minor_index) == major_index \o minor_index

\* Mutant: compaction resets the staleness list.
CompactState_ResetsStale(state, ntotal) ==
    [state EXCEPT
        !.major_vector_count = ntotal,
        !.major_build_timestamp = TRUE,
        !.minor_vector_count = 0,
        !.minor_build_timestamp = FALSE,
        !.stale_vector_ids = << >>,
        !.indexed_file_hashes = PromoteTiers(@)]

\* The state object after compact's update.
CompactState(state, ntotal) ==
    [state EXCEPT
        !.major_vector_count = ntotal,
        !.major_build_timestamp = TRUE,
        !.minor_vector_count = 0,
        !.minor_build_timestamp = FALSE,
        !.indexed_file_hashes = PromoteTiers(@)]

Compact ==
    LET state == LoadState(disk, mem)
        minor == LoadMinor(disk, mem)
    IN  IF ~minor.index.some \/ Len(minor.index.val) = 0
        THEN /\ mem' = [mem EXCEPT
                    !._state = [some |-> TRUE, val |-> state],
                    !._minor_index = minor.index,
                    !._minor_metadata = minor.meta]
             /\ ret' = [op |-> "compact", args |-> << >>, value |-> <<"no_action">>]
             /\ alloc' = AllocNothing
             /\ UNCHANGED <<threads, readers, storeVars>>
             /\ UNCHANGED disk
        ELSE
        LET major == LoadMajor(disk, mem)
            major_index0 == IF major.index.some THEN major.index.val ELSE << >>
            major_metadata0 == IF major.index.some THEN major.meta.val ELSE << >>
            major_index == MergeFrom(major_index0, minor.index.val)
            major_metadata == major_metadata0 \o minor.meta.val
            new_state == CompactState(state, Len(major_index))
        IN  /\ Len(major_index) <= MaxVectors
            /\ mem' = [_major_index |-> Some(major_index),
                       _major_metadata |-> Some(major_metadata),
                       _minor_index |-> None,
                       _minor_metadata |-> None,
                       _state |-> [some |-> TRUE, val |-> new_state]]
            /\ disk' = [disk EXCEPT
                    !.major_index = Some(major_index),
                    !.major_meta = Some(major_metadata),
                    !.minor_index = None,
                    !.minor_meta = None,
                    !.state = [some |-> TRUE, val |-> new_state]]
            /\ ret' = [op |-> "compact", args |-> << >>, value |-> <<"success">>]
            /\ alloc' = AllocNothing
            /\ UNCHANGED <<threads, readers, storeVars>>

\* ---------------------------------------------------------- rebuild_major
\* Mutant: only the first chunk of each file is recorded.
FileHashesOf_FirstChunk(metadata) ==
    [p \in {metadata[i].file_path : i \in DOMAIN metadata} |->
        [hash |-> "", tier |-> "major",
         vector_ids |->
            LET own == SelectSeq(metadata, LAMBDA x : x.file_path = p)
            IN  <<own[1].id>>]]

\* file_hashes: each file_path -> the positions of its chunks, tier major.
FileHashesOf(metadata) ==
    [p \in {metadata[i].file_path : i \in DOMAIN metadata} |->
        [hash |-> "", tier |-> "major",
         vector_ids |->
            LET own == SelectSeq(metadata, LAMBDA x : x.file_path = p)
            IN  [i \in DOMAIN own |-> own[i].id]]]

\* The IndexState rebuild_major constructs.
RebuildState(new_metadata) ==
    [EmptyIndexState EXCEPT
        !.major_build_timestamp = TRUE,
        !.major_vector_count = Len(new_metadata),
        !.indexed_file_hashes = FileHashesOf(new_metadata)]

RebuildMajor(chunks) ==
    IF Len(chunks) = 0
    THEN /\ ret' = [op |-> "rebuild_major", args |-> <<0>>,
                    value |-> <<"error">>]
         /\ alloc' = AllocNothing
         /\ UNCHANGED <<threads, readers, storeVars>>
         /\ UNCHANGED <<disk, mem>>
    ELSE
    LET new_index == Normalized(chunks)
        new_metadata == NewMeta(chunks, 0)
        new_state == RebuildState(new_metadata)
    IN  /\ mem' = [_major_index |-> Some(new_index),
                   _major_metadata |-> Some(new_metadata),
                   _minor_index |-> None,
                   _minor_metadata |-> None,
                   _state |-> [some |-> TRUE, val |-> new_state]]
        /\ disk' = [disk EXCEPT
                !.major_index = Some(new_index),
                !.major_meta = Some(new_metadata),
                !.minor_index = None,
                !.minor_meta = None,
                !.state = [some |-> TRUE, val |-> new_state]]
        /\ ret' = [op |-> "rebuild_major", args |-> <<Len(chunks)>>,
                   value |-> <<"success">>]
        /\ alloc' = Allocate([i \in 1..Len(chunks) |-> i - 1], TRUE)
        /\ UNCHANGED <<threads, readers, storeVars>>

\* ----------------------------------------------------------------- search
\* index.search(query, k) of an IndexFlatIP: the positions of the k vectors
\* with the largest inner product, best first.  The order among equal
\* scores is the library's: every order is a possible answer.
FaissSearch(index, query, k) ==
    {h \in [1..k -> 1..Len(index)] :
        /\ \A i, j \in 1..k :
              i < j => /\ h[i] # h[j]
                       /\ InnerProduct(query, index[h[i]])
                            >= InnerProduct(query, index[h[j]])
        /\ \A p \in (1..Len(index)) \ Range(h) :
              InnerProduct(query, index[p]) <= InnerProduct(query, index[h[k]])}

\* Mutant: the staleness test is left out of the loop.
TierResults_NoStaleTest(hits, index, metadata, query, stale_ids, tier) ==
    LET kept == SelectSeq(hits, LAMBDA p : p <= Len(metadata))
    IN  [i \in DOMAIN kept |->
            [vector_id |-> metadata[kept[i]].id,
             file_path |-> metadata[kept[i]].file_path,
             chunk_index |-> metadata[kept[i]].chunk_index,
             similarity_score |-> InnerProduct(query, index[kept[i]]),
             tier |-> tier]]

\* The loop over one tier's hits: a hit beyond the metadata list or whose
\* id is in stale_ids is skipped, the others become SearchResults.
TierResults(hits, index, metadata, query, stale_ids, tier) ==
    LET kept == SelectSeq(hits, LAMBDA p :
                    p <= Len(metadata) /\ metadata[p].id \notin stale_ids)
    IN  [i \in DOMAIN kept |->
            [vector_id |-> metadata[kept[i]].id,
             file_path |-> metadata[kept[i]].file_path,
             chunk_index |-> metadata[kept[i]].chunk_index,
             similarity_score |-> InnerProduct(query, index[kept[i]]),
             tier |-> tier]]

\* results.sort(key=similarity_score, reverse=True): a stable sort.
RECURSIVE SortBySimilarity(_)
SortBySimilarity(results) ==
    IF Len(results) = 0 THEN << >>
    ELSE LET sorted == SortBySimilarity(SubSeq(results, 1, Len(results) - 1))
             r == results[Len(results)]
             k == Cardinality({i \in DOMAIN sorted :
                        sorted[i].similarity_score >= r.similarity_score})
         IN  SubSeq(sorted, 1, k) \o <<r>> \o SubSeq(sorted, k + 1, Len(sorted))

\* The seen-set loop: the first result of each (file_path, chunk_index).
RECURSIVE UniqueResults(_)
UniqueResults(results) ==
    IF Len(results) = 0 THEN << >>
    ELSE LET unique == UniqueResults(SubSeq(results, 1, Len(results) - 1))
             r == results[Len(results)]
         IN  IF \E i \in DOMAIN unique :
                    /\ unique[i].file_path = r.file_path
                    /\ unique[i].chunk_index = r.chunk_index
             THEN unique
             ELSE Append(unique, r)

\* Mutant: the results are deduplicated in tier order, without the sort.
MergeResults_NoSort(results, top_k) ==
    LET unique_results == UniqueResults(results)
    IN  SubSeq(unique_results, 1, Min(top_k, Len(unique_results)))

\* _merge_results(results, top_k)
MergeResults(results, top_k) ==
    LET unique_results == UniqueResults(SortBySimilarity(results))
    IN  SubSeq(unique_results, 1, Min(top_k, Len(unique_results)))

\* Every hit list one tier can contribute to a search.
TierSearch(tier_data, query, top_k, stale_ids, tier) ==
    IF tier_data.index.some /\ Len(tier_data.index.val) > 0
    THEN {TierResults(h, tier_data.index.val, tier_data.meta.val, query,
                      stale_ids, tier) :
            h \in FaissSearch(tier_data.index.val, query,
                              Min(top_k * 2, Len(tier_data.index.val)))}
    ELSE {<< >>}

\* The lists search(query_embedding, top_k, filter_stale) can return.
SearchResults(d, m, query_embedding, top_k, filter_stale) ==
    LET query == NormalizeL2(query_embedding)
        state == LoadState(d, m)
        stale_ids == IF filter_stale THEN Range(state.stale_vector_ids) ELSE {}
    IN  {MergeResults(major \o minor, top_k) :
            major \in TierSearch(LoadMajor(d, m), query, top_k, stale_ids, "major"),
            minor \in TierSearch(LoadMinor(d, m), query, top_k, stale_ids, "minor")}

\* The all_results lists a search can hand to _merge_results.
SearchHits(d, m, query_embedding, top_k, filter_stale) ==
    LET query == NormalizeL2(query_embedding)
        state == LoadState(d, m)
        stale_ids == IF filter_stale THEN Range(state.stale_vector_ids) ELSE {}
    IN  {major \o minor :
            major \in TierSearch(LoadMajor(d, m), query, top_k, stale_ids, "major"),
            minor \in TierSearch(LoadMinor(d, m), query, top_k, stale_ids, "minor")}

\* What the lazy loaders leave cached after a search.
Loaded(d, m) ==
    [_major_index |-> LoadMajor(d, m).index,
     _major_metadata |-> LoadMajor(d, m).meta,
     _minor_index |-> LoadMinor(d, m).index,
     _minor_metadata |-> LoadMinor(d, m).meta,
     _state |-> [some |-> TRUE, val |-> LoadState(d, m)]]

Search(query_embedding, top_k, filter_stale) ==
    \E results \in SearchResults(disk, mem, query_embedding, top_k, filter_stale) :
        /\ mem' = Loaded(disk, mem)
        /\ ret' = [op |-> "search",
                   args |-> <<query_embedding, top_k, filter_stale>>,
                   value |-> results]
        /\ alloc' = AllocNothing
        /\ UNCHANGED <<threads, readers, storeVars>>
        /\ UNCHANGED disk

\* ---------------------------------------------------- migrate_from_legacy
\* Mutant: the ids are counted from 1.
MigratedFiles_OneBased(files, metadata) ==
    LET paths == {metadata[i].file_path : i \in DOMAIN metadata}
        positions(p) ==
            SelectSeq([i \in DOMAIN metadata |-> i],
                      LAMBDA i : metadata[i].file_path = p)
    IN  [p \in (DOMAIN files) \cup paths |->
            IF p \notin paths THEN files[p]
            ELSE IF p \in DOMAIN files
            THEN [files[p] EXCEPT !.vector_ids = @ \o positions(p)]
            ELSE [hash |-> "", tier |-> "major", vector_ids |-> positions(p)]]

\* The loop over the migrated metadata: position i of each entry is
\* appended to the vector_ids of the entry's file_path.
MigratedFiles(files, metadata) ==
    LET paths == {metadata[i].file_path : i \in DOMAIN metadata}
        positions(p) ==
            LET at == SelectSeq([i \in DOMAIN metadata |-> i],
                                LAMBDA i : metadata[i].file_path = p)
            IN  [k \in DOMAIN at |-> at[k] - 1]
    IN  [p \in (DOMAIN files) \cup paths |->
            IF p \notin paths THEN files[p]
            ELSE IF p \in DOMAIN files
            THEN [files[p] EXCEPT !.vector_ids = @ \o positions(p)]
            ELSE [hash |-> "", tier |-> "major", vector_ids |-> positions(p)]]

\* migrate_from_legacy() on directory d by manager m: the directory and the
\* manager afterwards, and the value returned.
MigrateFromLegacy(d, m) ==
    IF d.major_index.some \/ ~d.legacy_index.some
    THEN [disk |-> d, mem |-> m, migrated |-> FALSE]
    ELSE
    LET renamed == [d EXCEPT
                !.major_index = d.legacy_index,
                !.legacy_index = None,
                !.major_meta = IF d.legacy_meta.some THEN d.legacy_meta ELSE @,
                !.legacy_meta = None]
        state == LoadState(d, m)
        major == LoadMajor(renamed, m)
        new_state ==
            [state EXCEPT
                !.major_build_timestamp = TRUE,
                !.major_vector_count =
                    IF major.index.some THEN Len(major.index.val) ELSE @,
                !.indexed_file_hashes =
                    IF major.meta.some THEN MigratedFiles(@, major.meta.val)
                    ELSE @]
    IN  [disk |-> [renamed EXCEPT !.state = [some |-> TRUE, val |-> new_state]],
         mem |-> [m EXCEPT
                    !._major_index = major.index,
                    !._major_metadata = major.meta,
                    !._state = [some |-> TRUE, val |-> new_state]],
         migrated |-> TRUE]

\* A process start as in build_faiss_index.main and the tool server: a new
\* manager on the data directory, then migrate_from_legacy().
Open ==
    LET o == MigrateFromLegacy(disk, NewManager)
        ids == IF o.migrated /\ o.disk.major_meta.some
               THEN {o.disk.major_meta.val[i].id :
                        i \in DOMAIN o.disk.major_meta.val}
               ELSE {}
    IN  /\ disk' = o.disk
        /\ mem' = o.mem
        /\ ret' = [op |-> "open", args |-> << >>, value |-> <<o.migrated>>]
        /\ alloc' = [alloc EXCEPT !.epoch = @ \cup ids, !.last = << >>]
        /\ UNCHANGED <<threads, readers, storeVars>>

\* ------------------------------------------------------------ the scan
\* self.stats after the reset.
ZeroStats ==
    [total_files |-> 0, successful_files |-> 0, failed_files |-> 0,
     permission_denied_files |-> 0, size_limit_exceeded_files |-> 0,
     encoding_error_files |-> 0, file_not_found_files |-> 0,
     timeout_files |-> 0, unknown_error_files |-> 0]

NoResults == [stats |-> ZeroStats, interrupted |-> FALSE]

\* No scan_directory call has been made.  entries: what discovery has still
\* to visit; queue: the submitted tasks no worker has taken; done: the
\* completed futures as_completed has not yielded; yielded: how many it has;
\* results: what the call returned; recorded: the processing_stats rows the
\* call wrote.
\* History: finished, the outcome of every task of this scan; start, the
\* FileRecords when the scan began; touched, whether a file changed since
\* it began; touched_before, whether one changed since the scan before it
\* began; scans, the calls made.
NoScan ==
    [pc |-> "idle", force |-> FALSE, shutdown_requested |-> FALSE,
     entries |-> << >>, all_files |-> << >>, queue |-> << >>,
     done |-> << >>, yielded |-> 0, stats |-> ZeroStats,
     results |-> NoResults, recorded |-> << >>,
     finished |-> << >>,
     start |-> << >>, touched |-> FALSE, touched_before |-> FALSE,
     scans |-> 0]

\* ---------------------------------------------------- the scanned directory
\* What a file holds: "text" yields chunks, "empty" yields no content (an
\* empty or non-text file), "unreadable" cannot be opened.  A file's mtime
\* also stands for its content version (its hash).
FileKinds == {"text", "empty", "unreadable"}

\* datetime.fromtimestamp(st_mtime).isoformat(): the text the Store keeps and
\* the text the change test compares; '' is the empty tuple.
IsoFormat(mtime) == <<"iso", mtime>>

\* The chunks chunk_text cuts a text file into.
ChunksPerFile == 2

\* A file is modified: new content, later mtime.
Touch(file_path, kind) ==
    /\ tree[file_path].mtime < MaxMtime
    /\ tree' = [tree EXCEPT ![file_path] =
                    [mtime |-> tree[file_path].mtime + 1, kind |-> kind]]
    /\ scan' = [scan EXCEPT !.touched = TRUE]
    /\ UNCHANGED <<store, workers>>
    /\ UNCHANGED indexVars

\* ---------------------------------------------------------------- the Store
NoRecord ==
    [some |-> FALSE, modified_date |-> << >>, file_hash |-> 0,
     processing_status |-> ""]

\* The tables after init_database and schema_refactor.sql.  content_analysis
\* and text_chunks_v2 keep, per path, the rows of the path in the order of
\* their ids.
EmptyTables ==
    [file_metadata |-> [p \in FilePaths |-> NoRecord],
     content_analysis |-> [p \in FilePaths |-> << >>],
     text_chunks |-> {},
     embeddings_index |-> {},
     content_fts |-> {},
     text_chunks_v2 |-> [p \in FilePaths |-> << >>]]

\* db: the committed tables, what every connection reads; writer: the worker
\* whose transaction holds the write lock (0: none); calls: history, the
\* process_single_file calls made so far.
EmptyStore == [db |-> EmptyTables, writer |-> 0, calls |-> 0]

\* get_file_modified_date: '' when there is no row.
GetFileModifiedDate(db, file_path) ==
    IF db.file_metadata[file_path].some
    THEN db.file_metadata[file_path].modified_date
    ELSE << >>

\* INSERT OR REPLACE INTO file_metadata: file_path is the primary key, so the
\* row of the path is replaced; no other table is touched.
InsertFileMetadata(t, metadata) ==
    [t EXCEPT !.file_metadata[metadata.file_path] =
        [some |-> TRUE,
         modified_date |-> metadata.modified_date,
         file_hash |-> metadata.file_hash,
         processing_status |-> metadata.processing_status]]

\* The statements of insert_content_analysis, in order.
Statements ==
    <<"insert_analysis", "delete_chunks", "delete_embeddings">>
        \o [i \in 1..ChunksPerFile |-> "insert_chunk"]
        \o <<"delete_fts", "insert_fts", "commit">>

\* Statement number stmt applied to the tables t.  content_analysis has an
\* autoincrement id and no unique key on file_path: INSERT OR REPLACE finds no
\* conflict and adds a row.
Execute(t, stmt, analysis) ==
    LET name == Statements[stmt]
        p == analysis.file_path
        i == stmt - 4
        row == [file_path |-> p, chunk_index |-> i,
                file_hash |-> analysis.file_hash]
    IN  CASE name = "insert_analysis" ->
                [t EXCEPT !.content_analysis[p] =
                    Append(@, [file_path |-> p,
                               file_hash |-> analysis.file_hash])]
          [] name = "delete_chunks" ->
                [t EXCEPT !.text_chunks = {r \in @ : r.file_path # p}]
          [] name = "delete_embeddings" ->
                [t EXCEPT !.embeddings_index = {r \in @ : r.file_path # p}]
          [] name = "insert_chunk" ->
                [t EXCEPT !.embeddings_index = @ \cup {row},
                          !.text_chunks = @ \cup {row}]
          [] name = "delete_fts" ->
                [t EXCEPT !.content_fts = {r \in @ : r.file_path # p}]
          [] name = "insert_fts" ->
                [t EXCEPT !.content_fts =
                    @ \cup {[file_path |-> p,
                             content_id |-> analysis.file_hash]}]
          [] OTHER -> t

\* Mutant: every statement is committed as it is executed.
Visible_Autocommit(db, t, committed) == t

\* What the other connections read after a statement of a transaction: the
\* committed tables, replaced by the transaction's at its commit.
Visible(db, t, committed) == IF committed THEN t ELSE db

\* ------------------------------------------------------ execute_with_retry
max_retries == 5
\* retry_delay, in milliseconds.
retry_delay == 500

Outcomes == {"ok", "busy", "error"}

\* Mutant: the sleeps grow linearly.
WaitTime_Linear(attempt) == retry_delay * (attempt + 1)

\* The sleep after the busy attempt number attempt (from 0).
WaitTime(attempt) == retry_delay * 2 ^ attempt

\* Whether a busy attempt is followed by another one.
ShouldRetry(attempt) == attempt < max_retries - 1

\* call: one execute_with_retry call, its attempts so far by outcome, the
\* sleeps made, and how it ended.
NoCall == [op |-> "", outcomes |-> << >>, waits |-> << >>, result |-> ""]
NewCall(op) == [NoCall EXCEPT !.op = op, !.result = "running"]

Returned(call) ==
    [call EXCEPT !.outcomes = Append(@, "ok"), !.result = "returned"]

\* An error that is not busy/locked is raised at once.
Raised(call) ==
    [call EXCEPT !.outcomes = Append(@, "error"), !.result = "raised"]

\* A busy/locked error: sleep and go round again, or raise on the last
\* attempt.
Busy(call) ==
    LET attempt == Len(call.outcomes)
    IN  IF ShouldRetry(attempt)
        THEN [call EXCEPT !.outcomes = Append(@, "busy"),
                          !.waits = Append(@, WaitTime(attempt))]
        ELSE [call EXCEPT !.outcomes = Append(@, "busy"),
                          !.result = "raised"]

\* ----------------------------------------------------- process_single_file
NoMetadata ==
    [file_path |-> "", modified_date |-> << >>, file_hash |-> 0,
     kind |-> "", processing_status |-> ""]
NoAnalysis == [file_path |-> "", file_hash |-> 0]

IdleWorker ==
    [pc |-> "idle", file_path |-> "", force |-> FALSE, future |-> FALSE,
     metadata |-> NoMetadata, analysis |-> NoAnalysis, stmt |-> 0,
     txn |-> EmptyTables, call |-> NoCall]
NoWorkers == [w \in Workers |-> IdleWorker]

\* extract_file_metadata of a file that exists.
ExtractFileMetadata(file_path) ==
    [file_path |-> file_path,
     modified_date |-> IsoFormat(tree[file_path].mtime),
     file_hash |-> IF tree[file_path].kind = "unreadable" THEN 0
                   ELSE tree[file_path].mtime,
     kind |-> tree[file_path].kind,
     processing_status |-> IF tree[file_path].kind = "unreadable"
                           THEN "permission_denied" ELSE "success"]

\* process_single_file returns status: the worker is free again and, when it
\* ran a task of the pool, the task's future is done.
Return(w, call, status) ==
    /\ workers' = [workers EXCEPT ![w] = IdleWorker]
    /\ ret' = [op |-> "process_single_file",
               args |-> <<workers[w].file_path>>,
               value |-> <<status, call>>]
    /\ scan' = IF workers[w].future
               THEN [scan EXCEPT
                        !.done = Append(@, [file_path |-> workers[w].file_path,
                                            status |-> status]),
                        !.finished = Append(@, [file_path |-> workers[w].file_path,
                                                status |-> status])]
               ELSE scan

\* Mutant: a file with a stored record counts as unchanged.
Unchanged_AnyRecord(db, file_path, mtime) ==
    GetFileModifiedDate(db, file_path) # << >>

\* The unchanged test of process_single_file.
Unchanged(db, file_path, mtime) ==
    LET db_mod == GetFileModifiedDate(db, file_path)
        fs_mod == IsoFormat(mtime)
    IN  db_mod # << >> /\ fs_mod # << >> /\ db_mod = fs_mod

\* process_single_file up to the extracted metadata: skipped on shutdown or
\* when unchanged (unless force).
ProcessBegin(w, file_path, force, future) ==
    LET taken == IF future THEN [scan EXCEPT !.queue = Tail(@)] ELSE scan
    IN
    /\ workers[w].pc = "idle"
    /\ store' = [store EXCEPT !.calls = IF future THEN @ ELSE @ + 1]
    /\ IF \/ scan.shutdown_requested
          \/ ~force /\ Unchanged(store.db, file_path, tree[file_path].mtime)
       THEN /\ workers' = workers
            /\ ret' = [op |-> "process_single_file", args |-> <<file_path>>,
                       value |-> <<"skipped", NoCall>>]
            /\ scan' = IF future
                       THEN [taken EXCEPT
                                !.done = Append(@, [file_path |-> file_path,
                                                    status |-> "skipped"]),
                                !.finished = Append(@, [file_path |-> file_path,
                                                        status |-> "skipped"])]
                       ELSE scan
       ELSE /\ workers' = [workers EXCEPT ![w] =
                    [IdleWorker EXCEPT
                        !.pc = "metadata",
                        !.file_path = file_path,
                        !.force = force,
                        !.future = future,
                        !.metadata = ExtractFileMetadata(file_path),
                        !.call = NewCall("insert_file_metadata")]]
            /\ scan' = taken
            /\ UNCHANGED ret
    /\ UNCHANGED tree
    /\ UNCHANGED indexState

\* One attempt of insert_file_metadata under execute_with_retry.
MetadataAttempt(w, outcome) ==
    LET me == workers[w]
    IN  /\ me.pc = "metadata"
        /\ CASE outcome = "ok" ->
                    /\ store.writer = 0
                    /\ store' = [store EXCEPT
                            !.db = InsertFileMetadata(@, me.metadata)]
                    /\ workers' = [workers EXCEPT
                            ![w].pc = "read",
                            ![w].call = Returned(me.call)]
                    /\ UNCHANGED <<scan, ret>>
             [] outcome = "busy" ->
                    /\ UNCHANGED store
                    /\ IF Busy(me.call).result = "running"
                       THEN /\ workers' = [workers EXCEPT
                                    ![w].call = Busy(me.call)]
                            /\ UNCHANGED <<scan, ret>>
                       ELSE Return(w, Busy(me.call), "unknown_error")
             [] OTHER ->
                    /\ UNCHANGED store
                    /\ Return(w, Raised(me.call), "unknown_error")
        /\ UNCHANGED tree
        /\ UNCHANGED indexState

\* The content of the file is read (text files whose metadata succeeded).
ReadContent(w) ==
    LET me == workers[w]
        now == tree[me.file_path]
    IN  /\ me.pc = "read"
        /\ IF me.metadata.kind = "text"
           THEN CASE now.kind = "text" ->
                        /\ workers' = [workers EXCEPT
                                ![w].pc = "content",
                                ![w].stmt = 1,
                                ![w].analysis =
                                    [file_path |-> me.file_path,
                                     file_hash |-> now.mtime],
                                ![w].call = NewCall("insert_content_analysis")]
                        /\ UNCHANGED <<scan, ret>>
                  [] now.kind = "empty" -> Return(w, me.call, "success")
                  [] OTHER -> Return(w, me.call, "permission_denied")
           ELSE Return(w, me.call, me.metadata.processing_status)
        /\ UNCHANGED <<tree, store>>
        /\ UNCHANGED indexState

\* One statement of one attempt of insert_content_analysis: the first takes
\* the write lock (or finds the database busy), the last commits; an error
\* rolls the transaction back.
ContentStep(w, outcome) ==
    LET me == workers[w]
        base == IF me.stmt = 1 THEN store.db ELSE me.txn
        t == Execute(base, me.stmt, me.analysis)
        committed == Statements[me.stmt] = "commit"
    IN  /\ me.pc = "content"
        /\ CASE outcome = "ok" ->
                    /\ store.writer = IF me.stmt = 1 THEN 0 ELSE w
                    /\ store' = [store EXCEPT
                            !.db = Visible(@, t, committed),
                            !.writer = IF committed THEN 0 ELSE w]
                    /\ IF committed
                       THEN Return(w, Returned(me.call),
                                   me.metadata.processing_status)
                       ELSE /\ workers' = [workers EXCEPT
                                    ![w].stmt = me.stmt + 1,
                                    ![w].txn = t]
                            /\ UNCHANGED <<scan, ret>>
             [] outcome = "busy" ->
                    /\ me.stmt = 1
                    /\ UNCHANGED store
                    /\ IF Busy(me.call).result = "running"
                       THEN /\ workers' = [workers EXCEPT
                                    ![w].call = Busy(me.call)]
                            /\ UNCHANGED <<scan, ret>>
                       ELSE Return(w, Busy(me.call), "unknown_error")
             [] OTHER ->
                    /\ store' = [store EXCEPT
                            !.writer = IF @ = w THEN 0 ELSE @]
                    /\ Return(w, Raised(me.call), "unknown_error")
        /\ UNCHANGED tree
        /\ UNCHANGED indexState

\* ------------------------------------------------------------ the system
\* A data directory left by the single-index predecessor.
LegacyDisk(chunks) ==
    [EmptyDisk EXCEPT
        !.legacy_index = Some(Normalized(chunks)),
        !.legacy_meta = Some(NewMeta(chunks, 0))]

InitialDisks == {EmptyDisk} \cup {LegacyDisk(c) : c \in LegacyInputs}

\* The first process start on the data directory d.
InitIndex(d) ==
        LET o == MigrateFromLegacy(d, NewManager)
            ids == IF o.disk.major_meta.some
                   THEN {o.disk.major_meta.val[i].id :
                            i \in DOMAIN o.disk.major_meta.val}
                   ELSE {}
        IN  /\ disk = o.disk
            /\ mem = o.mem
            /\ ret = [op |-> "open", args |-> << >>, value |-> <<o.migrated>>]
            /\ alloc = [ever |-> {}, added |-> {}, epoch |-> ids,
                        last |-> << >>]
            /\ threads = [t \in Threads |-> Idle]
            /\ search = NoSearch
            /\ compactor = NoCompact
            /\ server = NoServer

\* No file has been ingested: a fresh database beside the tree.
InitStore(t) ==
    /\ tree = t
    /\ store = EmptyStore
    /\ scan = NoScan
    /\ workers = NoWorkers

\* The directory every path of which holds text.
TextTree == [p \in FilePaths |-> [mtime |-> 1, kind |-> "text"]]

\* The first process start on an empty or a legacy data directory.
Init ==
    /\ \E d \in InitialDisks : InitIndex(d)
    /\ InitStore(TextTree)

\* Ingestion starts beside an empty index.
InitIngest ==
    /\ InitIndex(EmptyDisk)
    /\ InitStore(TextTree)

\* No worker is inside process_single_file for file_path.
Settled(file_path) ==
    \A w \in Workers :
        workers[w].pc # "idle" => workers[w].file_path # file_path

\* The thread that takes the next call: the free one, the first of them when
\* both are (which thread runs a call makes no difference to it).
FreeWorker ==
    IF \E w \in Workers : workers[w].pc = "idle"
    THEN CHOOSE w \in Workers :
            /\ workers[w].pc = "idle"
            /\ \A v \in Workers : workers[v].pc = "idle" => w <= v
    ELSE 0

\* Another worker's open transaction holds the write lock: the database is
\* busy for w.
Contended(w) == store.writer \notin {0, w}

\* Files are ingested by direct process_single_file calls while they change;
\* the database is busy for a worker while the other one writes.
NextStore ==
    \/ \E w \in Workers, p \in FilePaths, force \in BOOLEAN :
            /\ store.calls < MaxCalls
            /\ w = FreeWorker
            /\ \A v \in Workers :
                    workers[v].pc # "idle" => workers[v].file_path # p
            /\ ProcessBegin(w, p, force, FALSE)
    \/ \E w \in Workers, o \in Outcomes :
            (o = "busy" => Contended(w)) /\ MetadataAttempt(w, o)
    \/ \E w \in Workers : ReadContent(w)
    \/ \E w \in Workers, o \in Outcomes :
            (o = "busy" => Contended(w)) /\ ContentStep(w, o)
    \/ \E p \in FilePaths, k \in FileKinds : Touch(p, k)

SpecStore == InitIngest /\ [][NextStore]_vars

\* The same calls on files that stay text files: only their writes matter.
NextWrite ==
    \/ \E w \in Workers, p \in FilePaths, force \in BOOLEAN :
            /\ store.calls < MaxCalls
            /\ w = FreeWorker
            /\ \A v \in Workers :
                    workers[v].pc # "idle" => workers[v].file_path # p
            /\ ProcessBegin(w, p, force, FALSE)
    \/ \E w \in Workers, o \in Outcomes :
            (o = "busy" => Contended(w)) /\ MetadataAttempt(w, o)
    \/ \E w \in Workers : ReadContent(w)
    \/ \E w \in Workers, o \in Outcomes :
            (o = "busy" => Contended(w)) /\ ContentStep(w, o)
    \/ \E p \in FilePaths : Settled(p) /\ Touch(p, "text")

SpecWrite == InitIngest /\ [][NextWrite]_vars

Next ==
    \/ \E c \in AddInputs, h \in FileHashes : AddChunks(c, h)
    \/ \E f \in FilePaths : MarkFileStale(f)
    \/ Compact
    \/ \E c \in RebuildInputs : Len(c) <= MaxVectors /\ RebuildMajor(c)
    \/ \E q \in RawQueries, k \in 1..MaxTopK, fs \in BOOLEAN : Search(q, k, fs)

\* One manager's life on one index.
Spec == Init /\ [][Next]_vars

NextShape ==
    \/ \E c \in AddInputs, h \in FileHashes :
        \E rows \in EmbeddingRows(c), cols \in EmbeddingCols :
            AddChunksChecked(c, rows, cols, h)
    \/ \E f \in FilePaths : MarkFileStale(f)
    \/ Compact

\* One manager whose add_chunks is handed embeddings of any shape.
SpecShape == Init /\ [][NextShape]_vars

\* The data directory as the predecessor or nobody left it, before the
\* first process start.
InitRestart ==
    /\ disk \in InitialDisks
    /\ mem = NewManager
    /\ ret = [op |-> "none", args |-> << >>, value |-> << >>]
    /\ alloc = [ever |-> {}, added |-> {}, epoch |-> {}, last |-> << >>]
    /\ threads = [t \in Threads |-> Idle]
    /\ search = NoSearch
    /\ compactor = NoCompact
    /\ server = NoServer
    /\ InitStore(TextTree)

\* Every process starts with Open; between two starts it works on the index.
NextRestart ==
    \/ Open
    \/ /\ ret.op # "none"
       /\ \/ \E c \in AddInputs, h \in FileHashes : AddChunks(c, h)
          \/ \E f \in FilePaths : MarkFileStale(f)
          \/ Compact
          \/ \E c \in RebuildInputs : Len(c) <= MaxVectors /\ RebuildMajor(c)

\* Processes that start, work on the index and end, one after the other.
SpecRestart == InitRestart /\ [][NextRestart]_vars

\* The data directory after add_chunks(first) and add_chunks(second) for the
\* same file: the vectors of first are stale, those of second live.
ReAddedDisk(first, second) ==
    LET file_path == first[1].file_path
        s1 == AddChunksState(EmptyIndexState, file_path, "h1",
                             [i \in 1..Len(first) |-> i - 1], Len(first))
        s2 == AddChunksState(s1, file_path, "h1",
                             [i \in 1..Len(second) |-> Len(first) + i - 1],
                             Len(first) + Len(second))
    IN  [EmptyDisk EXCEPT
            !.minor_index = Some(Normalized(first \o second)),
            !.minor_meta = Some(NewMeta(first, 0)
                                    \o NewMeta(second, Len(first))),
            !.state = [some |-> TRUE, val |-> s2]]

\* A file of two chunks was indexed and, modified to one chunk, indexed
\* again before this process started.
ReAddedDisks ==
    {ReAddedDisk(first, second) :
        first \in {c \in ChunkLists("a") : Len(c) = 2},
        second \in {c \in ChunkLists("a") : Len(c) = 1}}

InitReAdded ==
    /\ disk \in ReAddedDisks
    /\ mem = NewManager
    /\ ret = [op |-> "open", args |-> << >>, value |-> <<FALSE>>]
    /\ alloc = [ever |-> 0..2, added |-> 0..2, epoch |-> 0..2, last |-> << >>]
    /\ threads = [t \in Threads |-> Idle]
    /\ search = NoSearch
    /\ compactor = NoCompact
    /\ server = NoServer
    /\ InitStore(TextTree)

\* One manager's life on an index that holds stale vectors.
SpecReAdded == InitReAdded /\ [][Next]_vars

\* ----------------------------------------------------------------- crashes
\* After a crash the process is gone; the next one starts on the files left.
Restarted(d, call) ==
    LET o == MigrateFromLegacy(d, NewManager)
    IN  /\ disk' = o.disk
        /\ mem' = o.mem
        /\ ret' = [op |-> "crash", args |-> <<call>>, value |-> << >>]
        /\ alloc' = AllocNothing
        /\ UNCHANGED <<threads, readers, storeVars>>

\* add_chunks killed after _save_minor_index() and before _save_state().
AddChunksCrash(chunks) ==
    LET minor == LoadMinor(disk, mem)
        index == IF minor.index.some THEN minor.index.val ELSE << >>
        meta == IF minor.index.some THEN minor.meta.val ELSE << >>
        base_id == BaseId(LoadState(disk, mem))
        new_index == index \o Normalized(chunks)
        new_meta == meta \o NewMeta(chunks, base_id)
    IN  /\ Len(chunks) > 0
        /\ Len(new_index) + NTotal(LoadMajor(disk, mem).index) <= MaxVectors
        /\ Restarted([disk EXCEPT
                        !.minor_index = Some(new_index),
                        !.minor_meta = Some(new_meta)],
                     "add_chunks")

\* compact killed after the Major files are written and before
\* _save_state(): removed = how many of the two Minor files are gone.
CompactCrash(removed) ==
    LET minor == LoadMinor(disk, mem)
        major == LoadMajor(disk, mem)
        major_index0 == IF major.index.some THEN major.index.val ELSE << >>
        major_metadata0 == IF major.index.some THEN major.meta.val ELSE << >>
    IN  /\ minor.index.some
        /\ Len(minor.index.val) > 0
        /\ Len(major_index0) + Len(minor.index.val) <= MaxVectors
        /\ Restarted([disk EXCEPT
                        !.major_index =
                            Some(MergeFrom(major_index0, minor.index.val)),
                        !.major_meta = Some(major_metadata0 \o minor.meta.val),
                        !.minor_index = IF removed >= 1 THEN None ELSE @,
                        !.minor_meta = IF removed >= 2 THEN None ELSE @],
                     "compact")

NextCrash ==
    \/ \E c \in AddInputs, h \in FileHashes : AddChunks(c, h)
    \/ \E f \in FilePaths : MarkFileStale(f)
    \/ Compact
    \/ Open
    \/ \E c \in AddInputs : AddChunksCrash(c)
    \/ \E removed \in 0..2 : CompactCrash(removed)

\* Processes that may be killed between the index write and the state write.
SpecCrash == Init /\ [][NextCrash]_vars

\* ----------------------------------------------------------------- threads
\* Two threads call add_chunks and mark_file_stale on one manager. The
\* class takes no lock, so a thread may be preempted between statements; a
\* step below is one statement group, and the locals (minor_index,
\* minor_metadata, state) are references to the manager's own objects.
Pending ==
    LET n(t) == IF threads[t].pc = "add_index" THEN Len(threads[t].chunks) ELSE 0
    IN  n(1) + n(2)

\* add_chunks up to "base_id = ...": load or create Minor, load the state.
AddBegin(t, chunks, file_hash) ==
    LET minor == LoadMinor(disk, mem)
        state == LoadState(disk, mem)
    IN  /\ threads[t].pc = "idle"
        /\ Len(chunks) > 0
        /\ NTotal(LoadMajor(disk, mem).index) + NTotal(minor.index)
                + Pending + Len(chunks) <= MaxVectors
        /\ mem' = [mem EXCEPT
                !._minor_index = IF minor.index.some THEN minor.index
                                 ELSE Some(<< >>),
                !._minor_metadata = IF minor.index.some THEN minor.meta
                                    ELSE Some(<< >>),
                !._state = [some |-> TRUE, val |-> state]]
        /\ threads' = [threads EXCEPT ![t] =
                [Idle EXCEPT !.pc = "add_index", !.chunks = chunks,
                             !.file_hash = file_hash,
                             !.base_id = BaseId(state),
                             !.file_path = chunks[1].file_path]]
        /\ UNCHANGED <<disk, ret, alloc>>
        /\ UNCHANGED <<readers, storeVars>>

\* minor_index.add(embeddings)
AddIndex(t) ==
    /\ threads[t].pc = "add_index"
    /\ mem' = [mem EXCEPT
            !._minor_index = Some(@.val \o Normalized(threads[t].chunks))]
    /\ threads' = [threads EXCEPT ![t].pc = "add_meta"]
    /\ UNCHANGED <<disk, ret, alloc>>
    /\ UNCHANGED <<readers, storeVars>>

\* the loop appending one metadata dict per chunk, id = base_id + i
AddMeta(t) ==
    LET added == NewMeta(threads[t].chunks, threads[t].base_id)
    IN  /\ threads[t].pc = "add_meta"
        /\ mem' = [mem EXCEPT !._minor_metadata = Some(@.val \o added)]
        /\ threads' = [threads EXCEPT
                ![t].pc = "add_state",
                ![t].vector_ids = [i \in 1..Len(added) |-> added[i].id]]
        /\ alloc' = Allocate([i \in 1..Len(added) |-> added[i].id], FALSE)
        /\ UNCHANGED <<disk, ret>>
        /\ UNCHANGED <<readers, storeVars>>

\* the update of the state object: counts, stale ids, the file's entry
AddState(t) ==
    /\ threads[t].pc = "add_state"
    /\ mem' = [mem EXCEPT !._state.val =
            AddChunksState(@, threads[t].file_path, threads[t].file_hash,
                           threads[t].vector_ids, NTotal(mem._minor_index))]
    /\ threads' = [threads EXCEPT ![t].pc = "add_save"]
    /\ UNCHANGED <<disk, ret, alloc>>
    /\ UNCHANGED <<readers, storeVars>>

\* _save_minor_index(); _save_state(); return len(chunks)
AddSave(t) ==
    /\ threads[t].pc = "add_save"
    /\ disk' = [disk EXCEPT
            !.minor_index = mem._minor_index,
            !.minor_meta = mem._minor_metadata,
            !.state = mem._state]
    /\ ret' = [op |-> "add_chunks",
               args |-> <<threads[t].file_path, threads[t].file_hash>>,
               value |-> <<Len(threads[t].chunks)>>]
    /\ threads' = [threads EXCEPT ![t] = Idle]
    /\ UNCHANGED <<mem, alloc>>
    /\ UNCHANGED <<readers, storeVars>>

\* mark_file_stale up to "vector_ids = ...": untracked files return [].
MarkBegin(t, file_path) ==
    LET state == LoadState(disk, mem)
    IN  /\ threads[t].pc = "idle"
        /\ mem' = [mem EXCEPT !._state = [some |-> TRUE, val |-> state]]
        /\ IF file_path \notin DOMAIN state.indexed_file_hashes
           THEN /\ ret' = [op |-> "mark_file_stale", args |-> <<file_path>>,
                           value |-> << >>]
                /\ UNCHANGED threads
           ELSE /\ threads' = [threads EXCEPT ![t] =
                        [Idle EXCEPT
                            !.pc = "mark_extend",
                            !.file_path = file_path,
                            !.vector_ids =
                                state.indexed_file_hashes[file_path].vector_ids]]
                /\ UNCHANGED ret
        /\ UNCHANGED <<disk, alloc>>
        /\ UNCHANGED <<readers, storeVars>>

\* state.stale_vector_ids.extend(vector_ids)
MarkExtend(t) ==
    /\ threads[t].pc = "mark_extend"
    /\ mem' = [mem EXCEPT !._state.val.stale_vector_ids =
                            @ \o threads[t].vector_ids]
    /\ threads' = [threads EXCEPT ![t].pc = "mark_del"]
    /\ UNCHANGED <<disk, ret, alloc>>
    /\ UNCHANGED <<readers, storeVars>>

\* del state.indexed_file_hashes[file_path]: KeyError when the entry is gone
MarkDel(t) ==
    /\ threads[t].pc = "mark_del"
    /\ IF threads[t].file_path \in DOMAIN mem._state.val.indexed_file_hashes
       THEN /\ mem' = [mem EXCEPT !._state.val.indexed_file_hashes =
                                    DelEntry(@, threads[t].file_path)]
            /\ threads' = [threads EXCEPT ![t].pc = "mark_save"]
            /\ UNCHANGED ret
       ELSE /\ ret' = [op |-> "raise",
                       args |-> <<"mark_file_stale", threads[t].file_path>>,
                       value |-> <<"KeyError">>]
            /\ threads' = [threads EXCEPT ![t] = Idle]
            /\ UNCHANGED mem
    /\ UNCHANGED <<disk, alloc>>
    /\ UNCHANGED <<readers, storeVars>>

\* _save_state(); return vector_ids
MarkSave(t) ==
    /\ threads[t].pc = "mark_save"
    /\ disk' = [disk EXCEPT !.state = mem._state]
    /\ ret' = [op |-> "mark_file_stale", args |-> <<threads[t].file_path>>,
               value |-> threads[t].vector_ids]
    /\ threads' = [threads EXCEPT ![t] = Idle]
    /\ UNCHANGED <<mem, alloc>>
    /\ UNCHANGED <<readers, storeVars>>

NextConc ==
    \/ \E t \in Threads, c \in AddInputs, h \in FileHashes : AddBegin(t, c, h)
    \/ \E t \in Threads : AddIndex(t)
    \/ \E t \in Threads : AddMeta(t)
    \/ \E t \in Threads : AddState(t)
    \/ \E t \in Threads : AddSave(t)
    \/ \E t \in Threads, f \in FilePaths : MarkBegin(t, f)
    \/ \E t \in Threads : MarkExtend(t)
    \/ \E t \in Threads : MarkDel(t)
    \/ \E t \in Threads : MarkSave(t)

\* Two threads on one manager, preempted between statements.
SpecConc == Init /\ [][NextConc]_vars

\* ------------------------------------------------- search beside compact
\* One thread searches while another compacts, on one manager without a
\* lock.  search reads the state, then the Major tier, then the Minor tier;
\* compact mutates the shared objects statement by statement.  The index is
\* filled by whole calls while neither is running.
Quiet == search.pc \in {"idle", "done"} /\ search.closed /\ compactor.pc = "idle"

\* The index as the last completed call left it.
Snapshot ==
    IF compactor.pc = "idle" THEN [disk |-> disk, mem |-> mem]
    ELSE compactor.pre

\* search up to "stale_ids = ...".
SearchBegin(query_embedding, top_k, filter_stale) ==
    LET state == LoadState(disk, mem)
    IN  /\ search.pc \in {"idle", "done"}
        /\ search.closed
        /\ mem' = [mem EXCEPT !._state = [some |-> TRUE, val |-> state]]
        /\ search' =
              [NoSearch EXCEPT
                 !.pc = "major",
                 !.query_embedding = query_embedding,
                 !.top_k = top_k,
                 !.filter_stale = filter_stale,
                 !.stale_ids = IF filter_stale
                               THEN Range(state.stale_vector_ids) ELSE {},
                 !.allowed = SearchResults(Snapshot.disk, Snapshot.mem,
                                           query_embedding, top_k, filter_stale),
                 !.closed = FALSE]
        /\ UNCHANGED <<disk, ret, alloc, threads, compactor, server, storeVars>>

\* "# Search major index": load it, query it, collect its results.
SearchMajor ==
    LET major == LoadMajor(disk, mem)
    IN  /\ search.pc = "major"
        /\ \E results \in TierSearch(major, NormalizeL2(search.query_embedding),
                                     search.top_k, search.stale_ids, "major") :
              search' = [search EXCEPT !.pc = "minor", !.all_results = results]
        /\ mem' = [mem EXCEPT !._major_index = major.index,
                              !._major_metadata = major.meta]
        /\ UNCHANGED <<disk, ret, alloc, threads, compactor, server, storeVars>>

\* "# Search minor index", then _merge_results and return.
SearchMinor ==
    LET minor == LoadMinor(disk, mem)
    IN  /\ search.pc = "minor"
        /\ \E results \in TierSearch(minor, NormalizeL2(search.query_embedding),
                                     search.top_k, search.stale_ids, "minor") :
              LET merged == MergeResults(search.all_results \o results,
                                         search.top_k)
              IN  /\ search' = [search EXCEPT
                                  !.pc = "done",
                                  !.all_results = @ \o results,
                                  !.result = merged,
                                  !.closed = (compactor.pc = "idle")]
                  /\ ret' = [op |-> "search",
                             args |-> <<search.query_embedding, search.top_k,
                                        search.filter_stale>>,
                             value |-> merged]
        /\ mem' = [mem EXCEPT !._minor_index = minor.index,
                              !._minor_metadata = minor.meta]
        /\ UNCHANGED <<disk, alloc, threads, compactor, server, storeVars>>

\* A call completed beside the search: the search may answer from the
\* index as that call left it.
Completed(d, m) ==
    IF search.pc = "idle" \/ search.closed THEN search
    ELSE [search EXCEPT
            !.allowed = @ \cup SearchResults(d, m, search.query_embedding,
                                             search.top_k, search.filter_stale),
            !.closed = (search.pc = "done")]

\* compact up to the load of Major: nothing to do without Minor vectors.
CompactBegin ==
    LET state == LoadState(disk, mem)
        minor == LoadMinor(disk, mem)
        major == LoadMajor(disk, mem)
        loaded == [mem EXCEPT !._state = [some |-> TRUE, val |-> state],
                              !._minor_index = minor.index,
                              !._minor_metadata = minor.meta]
    IN  /\ compactor.pc = "idle"
        /\ IF ~minor.index.some \/ Len(minor.index.val) = 0
           THEN /\ mem' = loaded
                /\ ret' = [op |-> "compact", args |-> << >>,
                           value |-> <<"no_action">>]
                /\ UNCHANGED compactor
           ELSE /\ mem' = [loaded EXCEPT !._major_index = major.index,
                                         !._major_metadata = major.meta]
                /\ compactor' =
                      [pc |-> "merge",
                       major_index |-> IF major.index.some
                                       THEN major.index.val ELSE << >>,
                       major_metadata |-> IF major.index.some
                                          THEN major.meta.val ELSE << >>,
                       pre |-> [disk |-> disk, mem |-> mem]]
                /\ UNCHANGED ret
        /\ UNCHANGED <<disk, alloc, threads, search, server, storeVars>>

\* major_index.merge_from(minor_index) moves the Minor vectors: a Major
\* object the manager already holds grows in place and the Minor object is
\* left empty; then the metadata lists are joined into a new list and the
\* state object is updated.
CompactMerge ==
    LET merged == MergeFrom(compactor.major_index, mem._minor_index.val)
    IN  /\ compactor.pc = "merge"
        /\ compactor' = [compactor EXCEPT
                !.pc = "publish",
                !.major_index = merged,
                !.major_metadata = @ \o mem._minor_metadata.val]
        /\ mem' = [mem EXCEPT
                !._major_index = IF @.some THEN Some(merged) ELSE @,
                !._minor_index = Some(<< >>),
                !._state.val = CompactState(@, Len(merged))]
        /\ UNCHANGED <<disk, ret, alloc, threads, search, server, storeVars>>

\* self._major_index = ...; self._major_metadata = ...; write both files.
CompactPublish ==
    /\ compactor.pc = "publish"
    /\ compactor' = [compactor EXCEPT !.pc = "remove"]
    /\ mem' = [mem EXCEPT
            !._major_index = Some(compactor.major_index),
            !._major_metadata = Some(compactor.major_metadata)]
    /\ disk' = [disk EXCEPT
            !.major_index = Some(compactor.major_index),
            !.major_meta = Some(compactor.major_metadata)]
    /\ UNCHANGED <<ret, alloc, threads, search, server, storeVars>>

\* Remove the Minor files, drop the Minor objects, _save_state(), return.
CompactFinish ==
    LET m == [mem EXCEPT !._minor_index = None, !._minor_metadata = None]
        d == [disk EXCEPT !.minor_index = None, !.minor_meta = None,
                          !.state = mem._state]
    IN  /\ compactor.pc = "remove"
        /\ compactor' = NoCompact
        /\ mem' = m
        /\ disk' = d
        /\ ret' = [op |-> "compact", args |-> << >>, value |-> <<"success">>]
        /\ search' = Completed(d, m)
        /\ UNCHANGED <<alloc, threads, server, storeVars>>

NextSearch ==
    \/ \E c \in AddInputs, h \in FileHashes : Quiet /\ AddChunks(c, h)
    \/ \E f \in FilePaths : Quiet /\ MarkFileStale(f)
    \/ \E q \in RawQueries, k \in 1..MaxTopK, fs \in BOOLEAN :
            SearchBegin(q, k, fs)
    \/ SearchMajor
    \/ SearchMinor
    \/ CompactBegin
    \/ CompactMerge
    \/ CompactPublish
    \/ CompactFinish

\* A searching thread beside a compacting thread.
SpecSearch == Init /\ [][NextSearch]_vars

\* --------------------------------------------------------------- chunking
\* chunking_refactor.py.  A text is the sequence of its characters.  The
\* target sizes are scaled down with the texts: CODE_CHUNK_SIZE stands for
\* 350 characters and PROSE_CHUNK_SIZE for 800.
CODE_CHUNK_SIZE == 4
PROSE_CHUNK_SIZE == 2

NL == "\n"
Whitespace == {" ", NL}
\* The characters of [.!?].
Punctuation == {"."}

\* The texts of at most n characters over an alphabet.
TextsOver(alphabet, n) == UNION {[1..k -> alphabet] : k \in 0..n}

\* The source files (lines of code) and the documents handed to the chunker.
CodeTexts == TextsOver({"x", NL}, MaxCodeLen)
ProseTexts ==
    TextsOver({"x", ".", " ", NL}, MaxProseLen)
        \cup TextsOver({"x", NL}, MaxCodeLen)

\* The first position from `from` on at which text holds a character of
\* (or, with inside = FALSE, not of) chars; Len(text) + 1 if none.
RECURSIVE Find(_, _, _, _)
Find(text, from, chars, inside) ==
    IF from > Len(text) THEN Len(text) + 1
    ELSE IF (text[from] \in chars) = inside THEN from
    ELSE Find(text, from + 1, chars, inside)

\* str.strip()
Strip(text) ==
    LET first == Find(text, 1, Whitespace, FALSE)
        last == CHOOSE j \in 0..Len(text) :
                    /\ j = 0 \/ text[j] \notin Whitespace
                    /\ \A k \in (j + 1)..Len(text) : text[k] \in Whitespace
    IN  SubSeq(text, first, last)

\* sep.join(parts)
RECURSIVE Join(_, _)
Join(parts, sep) ==
    IF Len(parts) = 0 THEN << >>
    ELSE IF Len(parts) = 1 THEN parts[1]
    ELSE parts[1] \o sep \o Join(Tail(parts), sep)

\* content.split('\n')
RECURSIVE SplitLines(_)
SplitLines(content) ==
    LET i == Find(content, 1, {NL}, TRUE)
    IN  IF i > Len(content) THEN <<content>>
        ELSE <<SubSeq(content, 1, i - 1)>>
                \o SplitLines(SubSeq(content, i + 1, Len(content)))

\* re.split(r'\n\s*\n', content): the leftmost newline that a run of
\* whitespace joins to another newline, up to the last such newline.
RECURSIVE SplitParagraphs(_, _)
SplitParagraphs(content, from) ==
    LET i == Find(content, from, {NL}, TRUE)
        stop == Find(content, i + 1, Whitespace, FALSE)
        ends == {j \in (i + 1)..(stop - 1) : content[j] = NL}
        j == CHOOSE e \in ends : \A o \in ends : o <= e
    IN  IF i > Len(content) THEN <<content>>
        ELSE IF ends = {} THEN SplitParagraphs(content, i + 1)
        ELSE <<SubSeq(content, 1, i - 1)>>
                \o SplitParagraphs(SubSeq(content, j + 1, Len(content)), 1)

\* re.split(r'([.!?]+\s+)', para): text, separator, text, ..., text.
RECURSIVE SplitSentences(_, _)
SplitSentences(para, from) ==
    LET i == Find(para, from, Punctuation, TRUE)
        e == Find(para, i, Punctuation, FALSE)
        w == Find(para, e, Whitespace, FALSE)
    IN  IF i > Len(para) THEN <<para>>
        ELSE IF w = e THEN SplitSentences(para, e)
        ELSE <<SubSeq(para, 1, i - 1), SubSeq(para, i, w - 1)>>
                \o SplitSentences(SubSeq(para, w, Len(para)), 1)

\* Mutant: the line that closes a chunk is dropped.
RECURSIVE PackLines_DropsLine(_, _, _, _)
PackLines_DropsLine(lines, chunks, current_chunk, current_size) ==
    IF Len(lines) = 0
    THEN IF current_chunk # << >>
         THEN Append(chunks, Join(current_chunk, <<NL>>))
         ELSE chunks
    ELSE LET line == Head(lines)
             line_size == Len(line) + 1
         IN  IF current_size + line_size > CODE_CHUNK_SIZE
                    /\ current_chunk # << >>
             THEN PackLines_DropsLine(Tail(lines),
                        Append(chunks, Join(current_chunk, <<NL>>)),
                        << >>, 0)
             ELSE PackLines_DropsLine(Tail(lines), chunks,
                        Append(current_chunk, line),
                        current_size + line_size)

\* chunk_code's loop over the lines and its final flush.
RECURSIVE PackLines(_, _, _, _)
PackLines(lines, chunks, current_chunk, current_size) ==
    IF Len(lines) = 0
    THEN IF current_chunk # << >>
         THEN Append(chunks, Join(current_chunk, <<NL>>))
         ELSE chunks
    ELSE LET line == Head(lines)
             line_size == Len(line) + 1
         IN  IF current_size + line_size > CODE_CHUNK_SIZE
                    /\ current_chunk # << >>
             THEN PackLines(Tail(lines),
                        Append(chunks, Join(current_chunk, <<NL>>)),
                        <<line>>, line_size)
             ELSE PackLines(Tail(lines), chunks,
                        Append(current_chunk, line),
                        current_size + line_size)

\* The chunk contents chunk_code(content) produces.
CodeChunks(content) ==
    IF Len(content) = 0 THEN << >>
    ELSE PackLines(SplitLines(content), << >>, << >>, 0)

\* The loop over the sentences of a paragraph that exceeds the target.
RECURSIVE PackSentences(_, _, _, _)
PackSentences(sentences, chunks, sent_chunk, sent_size) ==
    IF Len(sentences) = 0
    THEN IF sent_chunk # << >>
         THEN Append(chunks, Strip(Join(sent_chunk, << >>)))
         ELSE chunks
    ELSE LET sent == Head(sentences)
         IN  IF sent_size + Len(sent) > PROSE_CHUNK_SIZE /\ sent_chunk # << >>
             THEN PackSentences(Tail(sentences),
                        Append(chunks, Strip(Join(sent_chunk, << >>))),
                        <<sent>>, Len(sent))
             ELSE PackSentences(Tail(sentences), chunks,
                        Append(sent_chunk, sent), sent_size + Len(sent))

\* chunk_prose's discrete loop over the paragraphs and its final flush.
RECURSIVE PackParagraphs(_, _, _, _)
PackParagraphs(paragraphs, chunks, current_chunk, current_size) ==
    IF Len(paragraphs) = 0
    THEN IF current_chunk # << >>
         THEN Append(chunks, Join(current_chunk, <<NL, NL>>))
         ELSE chunks
    ELSE LET para == Head(paragraphs)
             para_size == Len(para)
             flushed == IF current_chunk # << >>
                        THEN Append(chunks, Join(current_chunk, <<NL, NL>>))
                        ELSE chunks
         IN  IF para_size > PROSE_CHUNK_SIZE
             THEN PackParagraphs(Tail(paragraphs),
                        PackSentences(SplitSentences(para, 1), flushed,
                                      << >>, 0),
                        << >>, 0)
             ELSE IF current_size + para_size > PROSE_CHUNK_SIZE
                        /\ current_chunk # << >>
             THEN PackParagraphs(Tail(paragraphs), flushed,
                        <<para>>, para_size)
             ELSE PackParagraphs(Tail(paragraphs), chunks,
                        Append(current_chunk, para),
                        current_size + para_size + 2)

\* The stripped, non-empty paragraphs of content.
Paragraphs(content) ==
    LET stripped == [i \in DOMAIN SplitParagraphs(content, 1) |->
                        Strip(SplitParagraphs(content, 1)[i])]
    IN  SelectSeq(stripped, LAMBDA p : p # << >>)

\* The chunk contents chunk_prose(content, use_overlap=False) produces.
ProseChunks(content) ==
    IF Len(content) = 0 THEN << >>
    ELSE PackParagraphs(Paragraphs(content), << >>, << >>, 0)

\* chunk_code(content, filename) / chunk_prose(content, filename) as calls.
ChunkCode(content) ==
    /\ ret' = [op |-> "chunk_code", args |-> <<content>>,
               value |-> CodeChunks(content)]
    /\ UNCHANGED <<indexState, storeVars>>

ChunkProse(content) ==
    /\ ret' = [op |-> "chunk_prose", args |-> <<content>>,
               value |-> ProseChunks(content)]
    /\ UNCHANGED <<indexState, storeVars>>

\* The chunker keeps nothing between two calls: each text is chunked once,
\* from the initial state.
NextChunk ==
    /\ ret.op = "open"
    /\ \/ \E content \in CodeTexts : ChunkCode(content)
       \/ \E content \in ProseTexts : ChunkProse(content)

\* A chunker handed any one text.
SpecChunk == InitIngest /\ [][NextChunk]_vars

\* ------------------------------------------------------ sliding windows
\* chunk_prose with use_overlap, and chunk_text of file_metadata_content.py.
\* The windows are scaled with the texts: WINDOW_SIZE stands for the 800
\* characters of PROSE_CHUNK_SIZE and the 1000 of chunk_size, boundary_slack
\* for the 100 characters in which a boundary is looked for, overlap_size for
\* the 120 (15%) and 200 characters of overlap.  As in the code the slack and
\* the overlap together are less than the window.
MaxWindowLen == 8
WINDOW_SIZE == 4
boundary_slack == 1
overlap_size == 1

SlidingOps == {"chunk_prose_overlap", "chunk_text"}

\* The texts handed to the two chunkers: paragraphs for the first, sentences
\* for the second.
WindowTexts(op) ==
    IF op = "chunk_prose_overlap" THEN TextsOver({"x", " ", NL}, MaxWindowLen)
    ELSE TextsOver({"x", " ", "."}, MaxWindowLen)

\* content.find('\n\n', lo, hi): the lowest index (from 0) of a blank line
\* that lies in content[lo:hi], -1 if none.
FindBreak(content, lo, hi) ==
    LET at == {i \in lo..(Min(hi, Len(content)) - 2) :
                    content[i + 1] = NL /\ content[i + 2] = NL}
    IN  IF at = {} THEN -1 ELSE CHOOSE i \in at : \A j \in at : i <= j

\* text.rfind('.', lo, hi): the highest index (from 0) of a period in
\* text[lo:hi], -1 if none.
RFindPeriod(text, lo, hi) ==
    LET at == {i \in lo..(Min(hi, Len(text)) - 1) : text[i + 1] = "."}
    IN  IF at = {} THEN -1 ELSE CHOOSE i \in at : \A j \in at : i >= j

\* The end of the window that starts at start: start + size, moved to the
\* blank line within the slack around it (chunk_prose) or behind the last
\* period within the slack before it (chunk_text) when the text goes on.
WindowEnd(op, text, start) ==
    LET end == start + WINDOW_SIZE
        para_break == FindBreak(text, end - boundary_slack, end + boundary_slack)
        last_period == RFindPeriod(text, Max(0, end - boundary_slack), end)
    IN  IF end >= Len(text) THEN end
        ELSE IF op = "chunk_prose_overlap"
        THEN (IF para_break # -1 THEN para_break ELSE end)
        ELSE (IF last_period # -1 THEN last_period + 1 ELSE end)

\* Mutant: the next window starts a whole window before the end.
NextStart_WindowBack(end) == end - WINDOW_SIZE

\* start = end - overlap
NextStart(end) == end - overlap_size

\* The positions (from 1) of text[start:end].strip() in text.
StrippedPositions(text, start, end) ==
    LET window == (start + 1)..Min(end, Len(text))
        solid == {p \in window : text[p] \notin Whitespace}
    IN  {p \in window : \E a, b \in solid : a <= p /\ p <= b}

\* The call up to the loop: no chunk for an empty text, and chunk_text
\* returns a text of at most chunk_size characters as it is.
SlideBegin(op, text) ==
    /\ ret' = [op |-> op, args |-> <<text>>,
               value |->
                 IF text = << >>
                 THEN [pc |-> "done", start |-> 0, chunks |-> << >>,
                       kept |-> {}]
                 ELSE IF op = "chunk_text" /\ Len(text) <= WINDOW_SIZE
                 THEN [pc |-> "done", start |-> 0, chunks |-> <<text>>,
                       kept |-> DOMAIN text]
                 ELSE [pc |-> "loop", start |-> 0, chunks |-> << >>,
                       kept |-> {}]]
    /\ UNCHANGED <<indexState, storeVars>>

\* One iteration of the while loop.
SlideStep ==
    LET text == ret.args[1]
        start == ret.value.start
        end == WindowEnd(ret.op, text, start)
        chunk == Strip(SubSeq(text, start + 1, Min(end, Len(text))))
    IN  /\ ret.op \in SlidingOps
        /\ ret.value.pc = "loop"
        /\ ret' = [ret EXCEPT !.value =
                    [pc |-> IF NextStart(end) >= Len(text) THEN "done"
                            ELSE "loop",
                     start |-> NextStart(end),
                     chunks |-> IF chunk # << >>
                                THEN Append(ret.value.chunks, chunk)
                                ELSE ret.value.chunks,
                     kept |-> ret.value.kept
                                \cup StrippedPositions(text, start, end)]]
        /\ UNCHANGED <<indexState, storeVars>>

NextWindow ==
    \/ /\ ret.op = "open"
       /\ \E op \in SlidingOps : \E text \in WindowTexts(op) :
             SlideBegin(op, text)
    \/ SlideStep

\* A sliding-window chunker handed any one text.
SpecWindow == InitIngest /\ [][NextWindow]_vars

\* ------------------------------------------------------- the chunk table

\* The texts of the chunks of one version of a file.
ChunkContents == {"x", "y"}

\* The chunk lists the chunker hands over for a file: none for an empty
\* file, else up to MaxEnvelopes chunks.
FileChunkLists ==
    {<< >>} \cup {[i \in 1..n |-> c] : n \in 1..MaxEnvelopes, c \in ChunkContents}

\* _create_envelopes: chunk_index counts the chunks from 0 and every envelope
\* carries the length of the list.
CreateEnvelopes(chunks) ==
    [i \in 1..Len(chunks) |->
        [metadata |-> [chunk_index |-> i - 1, total_chunks |-> Len(chunks)],
         content |-> chunks[i]]]

\* ChunkEnvelope.to_json / from_json: the JSON object holds the metadata as a
\* dict and the content.
ToJson(envelope) ==
    [json |-> <<envelope.metadata.chunk_index, envelope.metadata.total_chunks,
                envelope.content>>]

FromJson(json_str) ==
    [metadata |-> [chunk_index |-> json_str.json[1],
                   total_chunks |-> json_str.json[2]],
     content |-> json_str.json[3]]

\* The row store_chunks inserts for one envelope.
ChunkRow(envelope) ==
    [chunk_index |-> envelope.metadata.chunk_index,
     total_chunks |-> envelope.metadata.total_chunks,
     chunk_envelope |-> ToJson(envelope)]

\* ORDER BY chunk_index.
OrderByChunkIndex(rows) ==
    SortSeq(rows, LAMBDA r, s : r.chunk_index < s.chunk_index)

\* get_all_chunks(file_path).
GetAllChunks(db, file_path) ==
    LET rows == OrderByChunkIndex(db.text_chunks_v2[file_path])
    IN  [i \in 1..Len(rows) |-> FromJson(rows[i].chunk_envelope)]

\* ChunkDatabase.get_adjacent_chunks: the rows with chunk_index BETWEEN
\* max(0, chunk_index - before) AND chunk_index + after.
DbAdjacentChunks(db, file_path, chunk_index, before, after) ==
    LET start_idx == Max(0, chunk_index - before)
        end_idx == chunk_index + after
        rows == OrderByChunkIndex(
                    SelectSeq(db.text_chunks_v2[file_path],
                              LAMBDA r : /\ r.chunk_index >= start_idx
                                         /\ r.chunk_index <= end_idx))
    IN  [i \in 1..Len(rows) |-> FromJson(rows[i].chunk_envelope)]

\* The slice that stops at the target chunk.
AdjacentChunks_StopsAtTarget(envelopes, chunk_index, before, after) ==
    LET start_idx == Max(0, chunk_index - before)
        end_idx == Min(Len(envelopes), chunk_index + after)
    IN  SubSeq(envelopes, start_idx + 1, end_idx)

\* AIOptimizedChunker.get_adjacent_chunks: the slice
\* envelopes[start_idx:end_idx] (both ends are at least 0 for a chunk_index
\* that is).
AdjacentChunks(envelopes, chunk_index, before, after) ==
    LET start_idx == Max(0, chunk_index - before)
        end_idx == Min(Len(envelopes), chunk_index + after + 1)
    IN  SubSeq(envelopes, start_idx + 1, end_idx)

\* store_chunks(file_path, envelopes): nothing at all for an empty list; else
\* one transaction deletes the rows of the path and inserts one row per
\* envelope.  failure: the INSERT that raises (0: none); the connection's
\* context manager then rolls the transaction back.
StoreChunks(file_path, envelopes, failure) ==
    /\ failure <= Len(envelopes)
    /\ IF envelopes = << >>
       THEN /\ ret' = [op |-> "store_chunks", args |-> <<file_path, envelopes>>,
                       value |-> [raised |-> FALSE, stored |-> 0]]
            /\ UNCHANGED store
       ELSE IF failure > 0
       THEN /\ ret' = [op |-> "store_chunks", args |-> <<file_path, envelopes>>,
                       value |-> [raised |-> TRUE, stored |-> 0]]
            /\ UNCHANGED store
       ELSE /\ store' = [store EXCEPT !.db.text_chunks_v2[file_path] =
                            [i \in 1..Len(envelopes) |-> ChunkRow(envelopes[i])]]
            /\ ret' = [op |-> "store_chunks", args |-> <<file_path, envelopes>>,
                       value |-> [raised |-> FALSE, stored |-> Len(envelopes)]]
    /\ UNCHANGED <<indexState, tree, scan, workers>>

\* The two get_adjacent_chunks as calls.
GetAdjacentChunks(file_path, chunk_index, before, after) ==
    /\ ret' = [op |-> "db_get_adjacent_chunks",
               args |-> <<file_path, chunk_index, before, after>>,
               value |-> DbAdjacentChunks(store.db, file_path, chunk_index,
                                          before, after)]
    /\ UNCHANGED <<indexState, storeVars>>

ChunkerGetAdjacentChunks(envelopes, chunk_index, before, after) ==
    /\ ret' = [op |-> "get_adjacent_chunks",
               args |-> <<envelopes, chunk_index, before, after>>,
               value |-> AdjacentChunks(envelopes, chunk_index, before, after)]
    /\ UNCHANGED <<indexState, storeVars>>

\* Files are chunked and stored again and again, and their chunks read back.
\* A read leaves the table as it is: reads are taken one at a time between
\* two store_chunks calls, a second read in a row reaching nothing that the
\* first does not.
NextChunkDb ==
    \/ \E file_path \in FilePaths, chunks \in FileChunkLists,
          failure \in 0..MaxEnvelopes :
          StoreChunks(file_path, CreateEnvelopes(chunks), failure)
    \/ /\ ret.op \in {"open", "store_chunks"}
       /\ \E chunk_index \in 0..MaxEnvelopes,
             before \in 0..MaxAdjacent, after \in 0..MaxAdjacent :
             \/ \E file_path \in FilePaths :
                   GetAdjacentChunks(file_path, chunk_index, before, after)
             \/ \E chunks \in FileChunkLists :
                   ChunkerGetAdjacentChunks(CreateEnvelopes(chunks),
                                            chunk_index, before, after)

SpecChunkDb == InitIngest /\ [][NextChunkDb]_vars

\* ------------------------------------------------- should_skip_directory
\* Directory names, and the directories asked about: "/" and up to MaxDepth
\* names below it (Path.parts).
DirNames == {"tmp", "linux-6.8", "my-notes", ".cache", "node_modules"}
DirPaths ==
    UNION {{<<"/">> \o names : names \in [1..n -> DirNames]} : n \in 1..MaxDepth}

\* The names that start with a dot, and those of system_dirs, among DirNames.
DotNames == {".cache"}
system_dirs == {"node_modules"}

\* The allowlist_paths an extractor is asked to be built with.
AllowLists == {{}, {<<"/", "tmp", "linux-6.8", "my-notes">>}}

\* is_hidden_path: some part of the path starts with a dot.
IsHiddenPath(path) == \E i \in DOMAIN path : path[i] \in DotNames

\* dir_path.name
Name(path) == path[Len(path)]

\* should_skip_directory(dir_path): hidden, then system directory, then
\* depth.  The function reads no allowlist and no denylist.
ShouldSkipDirectory(dir_path) ==
    IF IsHiddenPath(dir_path) THEN <<TRUE, "Hidden directory">>
    ELSE IF Name(dir_path) \in system_dirs THEN <<TRUE, "System directory">>
    ELSE IF Len(dir_path) > 20 THEN <<TRUE, "Directory too deep">>
    ELSE <<FALSE, "OK">>

\* should_skip_directory as a call of an extractor configured with
\* allowlist_paths.
SkipDirectory(allowlist_paths, dir_path) ==
    /\ ret' = [op |-> "should_skip_directory",
               args |-> <<allowlist_paths, dir_path>>,
               value |-> ShouldSkipDirectory(dir_path)]
    /\ UNCHANGED <<indexState, storeVars>>

NextDiscover ==
    \E allowlist_paths \in AllowLists, dir_path \in DirPaths :
        SkipDirectory(allowlist_paths, dir_path)

SpecDiscover == InitIngest /\ [][NextDiscover]_vars

\* -------------------------------------------------------- log_autograph
\* context_summary arguments, with _generate_context_hash of each: the first
\* 8 hex digits of its md5.
Contexts == {"MCP tools", "parser"}
ContextHash(context) ==
    IF context = "MCP tools" THEN "350ba2f1" ELSE "3643b863"

\* Sources, as the parts of their paths between the slashes; two of them
\* share their last part.
Sources == {<<"docs", "a.md">>, <<"src", "a.md">>, <<"b.md">>}

\* The lists of at most n sources, repeated entries included.
SourceLists(n) == UNION {[1..k -> Sources] : k \in 0..n}

\* os.path.basename
Basename(source) == source[Len(source)]

\* config["edge_weights"], in tenths.
edge_weights == [accepted |-> 10, rejected |-> -5, ignored |-> 0]

\* The orders in which a set can be iterated.
Orderings(S) ==
    {order \in [1..Cardinality(S) -> S] :
        \A i, j \in 1..Cardinality(S) : i # j => order[i] # order[j]}

\* Mutant: a node that nodes.csv holds is rewritten at the end of the file.
GetOrCreateNode_MovesRow(kg, node_id, node_type, label) ==
    LET embedded == node_type = "context" /\ kg.model
        others == SelectSeq(kg.nodes, LAMBDA n : n.node_id # node_id)
    IN  [kg EXCEPT
            !.nodes = Append(others, [node_id |-> node_id,
                                      node_type |-> node_type,
                                      label |-> label,
                                      embedding_id |->
                                          IF embedded THEN "emb:" \o node_id
                                          ELSE "None"]),
            !.embedding_index =
                IF embedded /\ Len(others) = Len(kg.nodes)
                THEN Append(@, node_id) ELSE @]

\* Mutant: the node is written whether or not nodes.csv holds its id.
GetOrCreateNode_AlwaysWrites(kg, node_id, node_type, label) ==
    LET embedded == node_type = "context" /\ kg.model
    IN  [kg EXCEPT
            !.nodes = Append(@, [node_id |-> node_id,
                                 node_type |-> node_type,
                                 label |-> label,
                                 embedding_id |->
                                     IF embedded THEN "emb:" \o node_id
                                     ELSE "None"]),
            !.embedding_index = IF embedded THEN Append(@, node_id) ELSE @]

\* _get_or_create_node: a node is written when nodes.csv holds none of its
\* id; a new context node gets a row of embeddings.npy (_add_embedding) when
\* the model is loaded.
GetOrCreateNode(kg, node_id, node_type, label) ==
    IF \E i \in DOMAIN kg.nodes : kg.nodes[i].node_id = node_id
    THEN kg
    ELSE LET embedded == node_type = "context" /\ kg.model
         IN  [kg EXCEPT
                 !.nodes = Append(@, [node_id |-> node_id,
                                      node_type |-> node_type,
                                      label |-> label,
                                      embedding_id |->
                                          IF embedded THEN "emb:" \o node_id
                                          ELSE "None"]),
                 !.embedding_index =
                     IF embedded THEN Append(@, node_id) ELSE @]

\* The loop that appends an edge only for a source whose node is new.
RECURSIVE LogSources_OncePerNode(_, _, _, _, _, _)
LogSources_OncePerNode(kg, sources, edge_type, context_node_id, context_summary, command) ==
    IF sources = << >> THEN kg
    ELSE LET source_node_id == "file:" \o Basename(Head(sources))
             edge == [source_node |-> context_node_id,
                      edge_type |-> edge_type,
                      target_node |-> source_node_id,
                      weight |-> edge_weights[edge_type],
                      context_summary |-> context_summary,
                      command |-> command]
             known == \E i \in DOMAIN kg.nodes :
                          kg.nodes[i].node_id = source_node_id
         IN  LogSources_OncePerNode(
                 [GetOrCreateNode(kg, source_node_id, "file", Head(sources))
                     EXCEPT !.edges = IF known THEN @ ELSE Append(@, edge)],
                 Tail(sources), edge_type, context_node_id, context_summary,
                 command)

\* One loop of log_autograph over sources: per source its file node, then one
\* edge of edge_type appended to edges.csv.
RECURSIVE LogSources(_, _, _, _, _, _)
LogSources(kg, sources, edge_type, context_node_id, context_summary, command) ==
    IF sources = << >> THEN kg
    ELSE LET source_node_id == "file:" \o Basename(Head(sources))
             edge == [source_node |-> context_node_id,
                      edge_type |-> edge_type,
                      target_node |-> source_node_id,
                      weight |-> edge_weights[edge_type],
                      context_summary |-> context_summary,
                      command |-> command]
         IN  LogSources(
                 [GetOrCreateNode(kg, source_node_id, "file", Head(sources))
                     EXCEPT !.edges = Append(@, edge)],
                 Tail(sources), edge_type, context_node_id, context_summary,
                 command)

\* log_autograph(context_summary, command, sources_offered, sources_accepted,
\* sources_rejected).  The ignored sources are a Python set, iterated in an
\* order of its own.
LogAutograph(context_summary, command, sources_offered, sources_accepted, sources_rejected) ==
    /\ \/ disk.kg.damage # "unwritable"
       \/ sources_offered \o sources_accepted \o sources_rejected = << >>
    /\ LET context_node_id == "context:" \o ContextHash(context_summary)
           ignored == (Range(sources_offered) \ Range(sources_accepted))
                          \ Range(sources_rejected)
           kg1 == GetOrCreateNode(disk.kg, context_node_id, "context",
                                  context_summary)
           kg2 == LogSources(kg1, sources_accepted, "accepted",
                             context_node_id, context_summary, command)
           kg3 == LogSources(kg2, sources_rejected, "rejected",
                             context_node_id, context_summary, command)
       IN  \E order \in Orderings(ignored) :
              /\ disk' = [disk EXCEPT !.kg =
                             LogSources(kg3, order, "ignored", context_node_id,
                                        context_summary, command)]
              /\ ret' = [op |-> "log_autograph",
                         args |-> <<context_summary, command, sources_offered,
                                    sources_accepted, sources_rejected>>,
                         value |-> [raised |-> FALSE,
                                    context_node |-> context_node_id,
                                    edges_created |->
                                        Len(sources_accepted)
                                            + Len(sources_rejected)
                                            + Cardinality(ignored),
                                    accepted |-> Len(sources_accepted),
                                    rejected |-> Len(sources_rejected),
                                    ignored |-> Cardinality(ignored)]]
    /\ UNCHANGED <<mem, alloc, threads, readers, storeVars>>

\* The knowledge graphs a manager is opened on, with or without its model:
\* the empty one, and those that one earlier call that accepted one source
\* has left.
InitialGraphs ==
    UNION {{new} \cup
           {LogSources(GetOrCreateNode(new, "context:" \o ContextHash(c),
                                       "context", c),
                       <<s>>, "accepted", "context:" \o ContextHash(c), c,
                       "ground") : c \in Contexts, s \in Sources} :
           new \in {[EmptyGraph EXCEPT !.model = m] : m \in BOOLEAN}}

InitGraph(graphs) ==
    /\ disk \in {[EmptyDisk EXCEPT !.kg = g] : g \in graphs}
    /\ mem = NewManager
    /\ ret = [op |-> "open", args |-> << >>, value |-> <<FALSE>>]
    /\ alloc = [ever |-> {}, added |-> {}, epoch |-> {}, last |-> << >>]
    /\ threads = [t \in Threads |-> Idle]
    /\ search = NoSearch
    /\ compactor = NoCompact
    /\ server = NoServer
    /\ InitStore(TextTree)

InitAutograph == InitGraph(InitialGraphs)

\* One grounding choice is logged on the graph that earlier calls have left.
NextAutograph ==
    /\ ret.op = "open"
    /\ \E context_summary \in Contexts, command \in {"ground"},
          sources_offered \in SourceLists(MaxSources),
          sources_accepted \in SourceLists(MaxSources),
          sources_rejected \in SourceLists(1) :
           LogAutograph(context_summary, command, sources_offered,
                        sources_accepted, sources_rejected)

SpecAutograph == InitAutograph /\ [][NextAutograph]_vars

\* ---------------------------------------------- reading the autographs
\* The texts asked about, and what the embedding model makes of a text and a
\* context summary: their cosine similarity, in tenths.
Queries == {"working on MCP tools", "parser", "mcp"}
CosineSimilarity(query, context) ==
    IF query = context THEN 10
    ELSE IF query = "working on MCP tools" /\ context = "MCP tools" THEN 8
    ELSE IF query = "mcp" /\ context = "MCP tools" THEN 4
    ELSE 2

\* context.lower() in context_summary.lower()
ContainsLower(context_summary, context) ==
    \/ context_summary = context
    \/ context_summary = "MCP tools" /\ context = "mcp"

\* The context whose node has node_id.
ContextOf(node_id) ==
    CHOOSE c \in Contexts : "context:" \o ContextHash(c) = node_id

\* list.sort(key): the entries in ascending order of their keys, entries of
\* one key in the order they had.
StableSort(s, Before(_, _)) ==
    LET rank(i) ==
            Cardinality({j \in DOMAIN s :
                            \/ Before(s[j], s[i])
                            \/ ~Before(s[i], s[j]) /\ j < i}) + 1
    IN  [k \in DOMAIN s |-> s[CHOOSE i \in DOMAIN s : rank(i) = k]]

\* s[:n]
Prefix(s, n) == SubSeq(s, 1, Min(n, Len(s)))

RECURSIVE Sum(_)
Sum(s) == IF s = << >> THEN 0 ELSE Head(s) + Sum(Tail(s))

RECURSIVE Flatten(_)
Flatten(ss) == IF ss = << >> THEN << >> ELSE Head(ss) \o Flatten(Tail(ss))

\* _find_similar_contexts(query, top_k): nothing without a model or without
\* embeddings; else the top_k embedded nodes by descending similarity, each
\* with its similarity.  np.argsort leaves the order of equal similarities
\* open: the set of the lists it may return.
FindSimilarContexts(kg, query, top_k) ==
    IF ~kg.model \/ kg.embedding_index = << >> THEN {<< >>}
    ELSE {Prefix([i \in DOMAIN order |->
                     <<order[i], CosineSimilarity(query, ContextOf(order[i]))>>],
                 top_k) :
            order \in {o \in Orderings(Range(kg.embedding_index)) :
                         \A i, j \in DOMAIN o :
                             i < j => CosineSimilarity(query, ContextOf(o[i]))
                                        >= CosineSimilarity(query, ContextOf(o[j]))}}

\* _read_edges raises on a row whose weight is no number.
ReadEdgesRaises(kg) == kg.damage = "weight"

\* The rows of edges that leave ctx_node_id, in file order.
EdgesOf(edges, ctx_node_id) ==
    SelectSeq(edges, LAMBDA e : e.source_node = ctx_node_id)

\* query_autographs past the reading of the edges: the substring fallback
\* when no context is similar, else the edges of the similar contexts sorted
\* by (-similarity, -weight), cut to limit.
QueryResults(kg, similar_contexts, context, limit) ==
    IF similar_contexts = << >>
    THEN LET matching == SelectSeq(kg.edges,
                             LAMBDA e : ContainsLower(e.context_summary, context))
         IN  Prefix([i \in DOMAIN matching |->
                        [edge |-> matching[i], context_similarity |-> 0]],
                    limit)
    ELSE LET results ==
                 Flatten([c \in DOMAIN similar_contexts |->
                     LET own == EdgesOf(kg.edges, similar_contexts[c][1])
                     IN  [i \in DOMAIN own |->
                            [edge |-> own[i],
                             context_similarity |-> similar_contexts[c][2]]]])
             Before(a, b) ==
                 \/ a.context_similarity > b.context_similarity
                 \/ /\ a.context_similarity = b.context_similarity
                    /\ a.edge.weight > b.edge.weight
         IN  Prefix(StableSort(results, Before), limit)

\* config["settings"]["max_suggestions"]
max_suggestions == 5

\* round(x, 3) of the quotient a / b, in thousandths.
Round3(a, b) == (2000 * a + b) \div (2 * b)

\* The accepted and rejected edges suggest_sources scores: those of the
\* similar contexts whose similarity is at least threshold, context by context.
ScoredEdges(kg, similar_contexts, threshold) ==
    Flatten([c \in DOMAIN similar_contexts |->
        IF similar_contexts[c][2] < threshold THEN << >>
        ELSE LET own == EdgesOf(kg.edges, similar_contexts[c][1])
             IN  [i \in DOMAIN own |->
                    [source |-> own[i].target_node,
                     edge_type |-> own[i].edge_type,
                     weight |-> own[i].weight,
                     similarity |-> similar_contexts[c][2]]]])

\* The sum of f over the scored edges of edge_type that point at source.
Score(scored, source, edge_type, f(_)) ==
    Sum([i \in DOMAIN scored |->
            IF scored[i].source = source /\ scored[i].edge_type = edge_type
            THEN f(scored[i]) ELSE 0])

\* suggest_sources past the reading of the edges: per source the
\* similarity-weighted accepted and rejected counts (tenths) and weight
\* (hundredths); confidence = accepted / (accepted + rejected), kept when at
\* least threshold; sorted by (-confidence, -total_weight), cut to
\* max_suggestions.  source_scores keeps its sources in the order they were
\* first met.
Suggestions(kg, similar_contexts, threshold) ==
    LET scored == ScoredEdges(kg, similar_contexts, threshold)
        first == SelectSeq([i \in DOMAIN scored |-> i],
                     LAMBDA i : \A j \in 1..(i - 1) :
                                   scored[j].source # scored[i].source)
        sim(e) == e.similarity
        wsim(e) == e.weight * e.similarity
        scores == [k \in DOMAIN first |->
                     LET source == scored[first[k]].source
                     IN  [source |-> source,
                          accepted |-> Score(scored, source, "accepted", sim),
                          rejected |-> Score(scored, source, "rejected", sim),
                          total_weight |->
                              Score(scored, source, "accepted", wsim)
                                + Score(scored, source, "rejected", wsim)]]
        kept == SelectSeq(scores,
                    LAMBDA x : /\ x.accepted + x.rejected > 0
                               /\ 10 * x.accepted
                                    >= threshold * (x.accepted + x.rejected))
        suggestions ==
            [k \in DOMAIN kept |->
                [source |-> kept[k].source,
                 confidence |-> Round3(kept[k].accepted,
                                       kept[k].accepted + kept[k].rejected),
                 total_weight |-> kept[k].total_weight,
                 accept_count |-> kept[k].accepted,
                 reject_count |-> kept[k].rejected]]
        Before(a, b) ==
            \/ a.confidence > b.confidence
            \/ a.confidence = b.confidence /\ a.total_weight > b.total_weight
    IN  Prefix(StableSort(suggestions, Before), max_suggestions)

\* A read call returned value / raised.
Answer(op, args, value) ==
    [op |-> op, args |-> args, value |-> [raised |-> FALSE, result |-> value]]
Raise(op, args) ==
    [op |-> op, args |-> args, value |-> [raised |-> TRUE, result |-> << >>]]

\* query_autographs(context, limit): the edges are read on both paths.
QueryAutographs(context, limit) ==
    /\ \E similar_contexts \in FindSimilarContexts(disk.kg, context, limit) :
          ret' = IF ReadEdgesRaises(disk.kg)
                 THEN Raise("query_autographs", <<context, limit>>)
                 ELSE Answer("query_autographs", <<context, limit>>,
                             QueryResults(disk.kg, similar_contexts, context,
                                          limit))
    /\ UNCHANGED <<indexState, storeVars>>

\* suggest_sources(context, threshold): [] before any edge is read when no
\* context is similar.
SuggestSources(context, threshold) ==
    /\ \E similar_contexts \in FindSimilarContexts(disk.kg, context, 20) :
          ret' = IF similar_contexts = << >>
                 THEN Answer("suggest_sources", <<context, threshold>>, << >>)
                 ELSE IF ReadEdgesRaises(disk.kg)
                 THEN Raise("suggest_sources", <<context, threshold>>)
                 ELSE Answer("suggest_sources", <<context, threshold>>,
                             Suggestions(disk.kg, similar_contexts, threshold))
    /\ UNCHANGED <<indexState, storeVars>>

\* The number of rows whose type is t.
TypeCount(rows, Type(_), t) ==
    Cardinality({i \in DOMAIN rows : Type(rows[i]) = t})

\* get_stats()
GetStats ==
    /\ ret' =
        IF ReadEdgesRaises(disk.kg) THEN Raise("get_stats", << >>)
        ELSE LET nodes == disk.kg.nodes
                 edges == disk.kg.edges
                 NodeType(n) == n.node_type
                 EdgeType(e) == e.edge_type
             IN  Answer("get_stats", << >>,
                    [total_nodes |-> Len(nodes),
                     total_edges |-> Len(edges),
                     node_types |->
                        [t \in {nodes[i].node_type : i \in DOMAIN nodes} |->
                            TypeCount(nodes, NodeType, t)],
                     edge_types |->
                        [t \in {edges[i].edge_type : i \in DOMAIN edges} |->
                            TypeCount(edges, EdgeType, t)],
                     bootstrap_phase |->
                        IF Len(edges) = 0 THEN "Cold"
                        ELSE IF Len(edges) < 10 THEN "Learning"
                        ELSE IF Len(edges) < 50 THEN "Warm"
                        ELSE "Hot",
                     embeddings_available |-> disk.kg.model,
                     embeddings_count |-> Len(disk.kg.embedding_index)])
    /\ UNCHANGED <<indexState, storeVars>>

\* log_autograph on an edges.csv that cannot be written: the context node and
\* the node of the first source are written when they are new, then
\* _write_edge raises, and the exception leaves log_autograph.
LogAutographFails(context_summary, command, sources_offered, sources_accepted, sources_rejected) ==
    /\ disk.kg.damage = "unwritable"
    /\ LET context_node_id == "context:" \o ContextHash(context_summary)
           ignored == (Range(sources_offered) \ Range(sources_accepted))
                          \ Range(sources_rejected)
           kg1 == GetOrCreateNode(disk.kg, context_node_id, "context",
                                  context_summary)
       IN  \E order \in Orderings(ignored) :
              LET sources == sources_accepted \o sources_rejected \o order
              IN  /\ sources # << >>
                  /\ disk' = [disk EXCEPT !.kg =
                                GetOrCreateNode(
                                    kg1, "file:" \o Basename(Head(sources)),
                                    "file", Head(sources))]
                  /\ ret' = Raise("log_autograph",
                                  <<context_summary, command, sources_offered,
                                    sources_accepted, sources_rejected>>)
    /\ UNCHANGED <<mem, alloc, threads, readers, storeVars>>

\* The graphs of InitialGraphs, and the same with a damaged edges.csv.
DamagedGraphs ==
    {[g EXCEPT !.damage = d] :
        g \in InitialGraphs, d \in {"none", "weight", "unwritable"}}

InitKnowledge == InitGraph(DamagedGraphs)

\* A grounding choice is logged, and the graph is read afterwards.
NextKnowledge ==
    \/ /\ ret.op = "open"
       /\ \E context_summary \in Contexts, command \in {"ground"},
             sources_accepted \in SourceLists(MaxSources),
             sources_rejected \in SourceLists(1) :
             \/ LogAutograph(context_summary, command,
                             sources_accepted \o sources_rejected,
                             sources_accepted, sources_rejected)
             \/ LogAutographFails(context_summary, command,
                                  sources_accepted \o sources_rejected,
                                  sources_accepted, sources_rejected)
    \/ /\ ret.op \in {"open", "log_autograph"}
       /\ \/ \E context \in Queries, limit \in {1, 10} :
                QueryAutographs(context, limit)
          \/ \E context \in Queries, threshold \in {3, 5} :
                SuggestSources(context, threshold)
          \/ GetStats

SpecKnowledge == InitKnowledge /\ [][NextKnowledge]_vars

\* ------------------------------------------------- build_faiss_index.py
\* The vectors an index built by the command line tool may hold here.
MaxBuilt == 4

\* The modified_date column as the text handed to the index as file_hash:
\* '' for a missing one, else the timestamp text.
DateTexts == <<"h1", "h2", "h3", "h4">>
DateText(modified_date) ==
    IF modified_date = << >> THEN "" ELSE DateTexts[modified_date[2]]

\* is_file_indexed(file_path, file_hash): the path is tracked and, when a hash
\* is given, the stored hash ('' when the entry has none) equals it.
IsFileIndexed(state, file_path, file_hash) ==
    /\ file_path \in DOMAIN state.indexed_file_hashes
    /\ file_hash # NoHash
         => state.indexed_file_hashes[file_path].hash = file_hash

\* SELECT ... FROM text_chunks ... WHERE file_path = p ORDER BY chunk_index,
\* each row with the embedding generate_embeddings computes for it.
ChunksOf(db, file_path) ==
    LET n == Cardinality({r \in db.text_chunks : r.file_path = file_path})
    IN  [i \in 1..n |->
            [file_path |-> file_path, chunk_index |-> i - 1,
             embedding |-> IF file_path = "a" THEN <<2, 0>> ELSE <<0, 3>>]]

\* ORDER BY tc.file_path
PathOrder == <<"a", "b">>

\* get_chunks_with_metadata: the chunks of every file, ordered by path.
GetChunksWithMetadata(db) ==
    ChunksOf(db, PathOrder[1]) \o ChunksOf(db, PathOrder[2])

\* get_new_chunks_since: the paths with chunks that the index does not hold
\* with the modified_date of the database, ordered by path.
NewFilePaths(db, state) ==
    SelectSeq(PathOrder,
              LAMBDA p :
                  /\ ChunksOf(db, p) # << >>
                  /\ ~IsFileIndexed(state, p,
                                    DateText(GetFileModifiedDate(db, p))))

\* add_chunks(chunks, embeddings, file_hash) on directory and manager s: the
\* directory and the manager afterwards.
AddedChunks(s, chunks, file_hash) ==
    LET minor == LoadMinor(s.disk, s.mem)
        index == IF minor.index.some THEN minor.index.val ELSE << >>
        meta == IF minor.index.some THEN minor.meta.val ELSE << >>
        state == LoadState(s.disk, s.mem)
        new_index == index \o Normalized(chunks)
        added == NewMeta(chunks, BaseId(state))
        new_state ==
            AddChunksState(state, chunks[1].file_path, file_hash,
                           [i \in 1..Len(chunks) |-> added[i].id],
                           Len(new_index))
    IN  [disk |-> [s.disk EXCEPT
                    !.minor_index = Some(new_index),
                    !.minor_meta = Some(meta \o added),
                    !.state = [some |-> TRUE, val |-> new_state]],
         mem |-> [s.mem EXCEPT
                    !._minor_index = Some(new_index),
                    !._minor_metadata = Some(meta \o added),
                    !._state = [some |-> TRUE, val |-> new_state]]]

\* The loop of cmd_add_only: one add_chunks per file of paths, the file's
\* modified_date as its hash.
RECURSIVE AddFiles(_, _, _)
AddFiles(s, db, paths) ==
    IF paths = << >> THEN s
    ELSE AddFiles(AddedChunks(s, ChunksOf(db, Head(paths)),
                              DateText(GetFileModifiedDate(db, Head(paths)))),
                  db, Tail(paths))

\* build_faiss_index.py --add-only
CmdAddOnly ==
    LET state == LoadState(disk, mem)
        paths == NewFilePaths(store.db, state)
        before == IF LoadMinor(disk, mem).index.some
                  THEN Len(LoadMinor(disk, mem).meta.val) ELSE 0
        now == [disk |-> disk,
                mem |-> [mem EXCEPT !._state = [some |-> TRUE, val |-> state]]]
        after == AddFiles(now, store.db, paths)
        minor_meta == after.disk.minor_meta.val
        ids == [i \in 1..(Len(minor_meta) - before) |->
                    minor_meta[before + i].id]
    IN  IF paths = << >>
        THEN /\ mem' = now.mem
             /\ ret' = [op |-> "add_only", args |-> << >>, value |-> <<0>>]
             /\ alloc' = AllocNothing
             /\ UNCHANGED <<disk, threads, readers, storeVars>>
        ELSE /\ NTotal(LoadMajor(disk, mem).index) + Len(minor_meta) <= MaxBuilt
             /\ disk' = after.disk
             /\ mem' = Loaded(after.disk, after.mem)
             /\ ret' = [op |-> "add_only", args |-> << >>,
                        value |-> <<Len(ids)>>]
             /\ alloc' = Allocate(ids, FALSE)
             /\ UNCHANGED <<threads, readers, storeVars>>

\* build_faiss_index.py --rebuild-major --force
CmdRebuildMajor ==
    /\ GetChunksWithMetadata(store.db) # << >>
    /\ RebuildMajor(GetChunksWithMetadata(store.db))

\* file_metadata_content.py has ingested file_path again after the file was
\* modified: the path's rows carry the new modification time.
Reingested(file_path) ==
    LET mtime == tree[file_path].mtime + 1
        record == [some |-> TRUE, modified_date |-> IsoFormat(mtime),
                   file_hash |-> mtime, processing_status |-> "success"]
    IN  /\ tree[file_path].mtime < MaxMtime
        /\ tree' = [tree EXCEPT ![file_path].mtime = mtime]
        /\ store' = [store EXCEPT
                !.db.file_metadata[file_path] = record,
                !.db.content_analysis[file_path] =
                    Append(@, [file_path |-> file_path, file_hash |-> mtime]),
                !.db.text_chunks =
                    {r \in @ : r.file_path # file_path}
                        \cup {[file_path |-> file_path, chunk_index |-> 0,
                               file_hash |-> mtime]}]
        /\ ret' = [op |-> "ingest", args |-> <<file_path>>, value |-> << >>]
        /\ UNCHANGED <<scan, workers>>
        /\ UNCHANGED indexState

\* The database after the files of paths, one chunk each, were ingested.
Ingested(paths) ==
    [EmptyTables EXCEPT
        !.file_metadata =
            [p \in FilePaths |->
                IF p \in paths
                THEN [some |-> TRUE, modified_date |-> IsoFormat(1),
                      file_hash |-> 1, processing_status |-> "success"]
                ELSE NoRecord],
        !.content_analysis =
            [p \in FilePaths |->
                IF p \in paths THEN <<[file_path |-> p, file_hash |-> 1]>>
                ELSE << >>],
        !.text_chunks =
            {[file_path |-> p, chunk_index |-> 0, file_hash |-> 1] :
                p \in paths}]

\* The tool starts on a database of ingested files, beside no index or beside
\* the legacy index built from that database.
InitBuild ==
    \E paths \in (SUBSET FilePaths) \ {{}} :
        /\ \E d \in {EmptyDisk, LegacyDisk(GetChunksWithMetadata(Ingested(paths)))} :
                InitIndex(d)
        /\ tree = TextTree
        /\ store = [EmptyStore EXCEPT !.db = Ingested(paths)]
        /\ scan = NoScan
        /\ workers = NoWorkers

NextBuild ==
    \/ CmdAddOnly
    \/ CmdRebuildMajor
    \/ Compact
    \/ \E p \in FilePaths : Reingested(p)

\* Runs of the index builder between ingestions.
SpecBuild == InitBuild /\ [][NextBuild]_vars

\* ------------------------------------------------------- the tool server
\* mcp_server_fixed.py: FileMetadataDB loads the index manager and the
\* embedding model on the first call that needs them.

\* A data directory as build_faiss_index.py left it after add_chunks(chunks).
BuiltDisk(chunks) ==
    AddedChunks([disk |-> EmptyDisk, mem |-> NewManager], chunks, "h1").disk

\* _load_faiss_index() of server s on directory d with manager m: the three
\* afterwards, and the value returned.
LoadFaissIndex(s, d, m) ==
    LET here == [server |-> s, disk |-> d, mem |-> m]
        o == MigrateFromLegacy(d, NewManager)
        manager == Loaded(o.disk, o.mem)
        total_vectors == NTotal(manager._major_index)
                            + NTotal(manager._minor_index)
        attempted == [s EXCEPT !._faiss_load_attempted = TRUE]
    IN  IF ~s.FAISS_AVAILABLE THEN here @@ [value |-> FALSE]
        ELSE IF s.faiss_manager THEN here @@ [value |-> TRUE]
        ELSE IF s._faiss_load_attempted THEN here @@ [value |-> FALSE]
        ELSE IF total_vectors = 0
        THEN [server |-> [attempted EXCEPT !.faiss_manager = TRUE],
              disk |-> o.disk, mem |-> manager, value |-> FALSE]
        ELSE IF ~s.model_loads
        THEN [server |-> attempted, disk |-> o.disk, mem |-> NewManager,
              value |-> FALSE]
        ELSE [server |-> [attempted EXCEPT !.faiss_manager = TRUE,
                                           !.sentence_model = TRUE],
              disk |-> o.disk, mem |-> manager, value |-> TRUE]

\* What a call of the server leaves: available is what _load_faiss_index
\* returned to it, queried whether faiss_manager.search was called.
Served(op, args, loaded, m, queried, result) ==
    /\ server' = loaded.server
    /\ disk' = loaded.disk
    /\ mem' = m
    /\ ret' = [op |-> op, args |-> args,
               value |-> [available |-> loaded.value, queried |-> queried,
                          result |-> result]]
    /\ alloc' = AllocNothing
    /\ UNCHANGED <<threads, search, compactor, storeVars>>

\* is_faiss_available()
IsFaissAvailable ==
    LET loaded == LoadFaissIndex(server, disk, mem)
    IN  Served("is_faiss_available", << >>, loaded, loaded.mem, FALSE, << >>)

\* semantic_search(query, limit): [] when the load fails and when anything
\* raises, as sentence_model.encode does when there is no model.
SemanticSearch(query_embedding, limit) ==
    LET loaded == LoadFaissIndex(server, disk, mem)
        args == <<query_embedding, limit>>
    IN  IF ~loaded.value \/ ~loaded.server.sentence_model
        THEN Served("semantic_search", args, loaded, loaded.mem, FALSE, << >>)
        ELSE \E results \in SearchResults(loaded.disk, loaded.mem,
                                          query_embedding, limit, TRUE) :
                Served("semantic_search", args, loaded,
                       Loaded(loaded.disk, loaded.mem), TRUE, results)

\* build_faiss_index.py, another process, adds the chunks of a file to the
\* index on disk.
ExternalBuild(chunks) ==
    LET after == AddedChunks([disk |-> disk, mem |-> NewManager], chunks, "h1")
    IN  /\ Len(chunks) > 0
        /\ NTotal(after.disk.major_index) + NTotal(after.disk.minor_index)
              <= MaxVectors
        /\ disk' = after.disk
        /\ ret' = [op |-> "build", args |-> <<chunks[1].file_path>>,
                   value |-> << >>]
        /\ alloc' = AllocNothing
        /\ UNCHANGED <<mem, threads, readers, storeVars>>

\* The directories a server is started on.
ServerDisks ==
    InitialDisks \cup {BuiltDisk(c) : c \in StoredChunks("a") \ {<< >>}}

InitServer ==
    /\ disk \in ServerDisks
    /\ mem = NewManager
    /\ ret = [op |-> "open", args |-> << >>, value |-> <<FALSE>>]
    /\ alloc = [ever |-> {}, added |-> {}, epoch |-> {}, last |-> << >>]
    /\ threads = [t \in Threads |-> Idle]
    /\ search = NoSearch
    /\ compactor = NoCompact
    /\ server \in {[NoServer EXCEPT !.FAISS_AVAILABLE = f, !.model_loads = l] :
                     f \in BOOLEAN, l \in BOOLEAN}
    /\ InitStore(TextTree)

NextServer ==
    \/ IsFaissAvailable
    \/ \E q \in RawQueries, limit \in 1..MaxTopK : SemanticSearch(q, limit)
    \/ \E c \in StoredChunks("b") : ExternalBuild(c)

\* One tool server beside the index builder.
SpecServer == InitServer /\ [][NextServer]_vars

\* ------------------------------------------------------------ observers
\* What the manager sees through its loaders.
CurState == LoadState(disk, mem)
MajorMeta ==
    IF LoadMajor(disk, mem).meta.some THEN LoadMajor(disk, mem).meta.val ELSE << >>
MinorMeta ==
    IF LoadMinor(disk, mem).meta.some THEN LoadMinor(disk, mem).meta.val ELSE << >>
MajorCount == NTotal(LoadMajor(disk, mem).index)
MinorCount == NTotal(LoadMinor(disk, mem).index)

\* The ids carried by the vectors stored in the two tiers.
StoredIds ==
    {MajorMeta[i].id : i \in DOMAIN MajorMeta}
        \cup {MinorMeta[i].id : i \in DOMAIN MinorMeta}

StaleIds == Range(CurState.stale_vector_ids)

\* The files whose indexed_files entry lists id.
OwnersOf(id) ==
    {p \in DOMAIN CurState.indexed_file_hashes :
        id \in Range(CurState.indexed_file_hashes[p].vector_ids)}

LiveIds == {id \in StoredIds : OwnersOf(id) # {}}

Increasing(ids) == \A i, j \in DOMAIN ids : i < j => ids[i] < ids[j]

\* ------------------------------------------------------------------- C1
\* C1 as stated: no call assigns an id that an earlier call assigned, and
\* the ids add_chunks assigns are larger than those of every earlier
\* add_chunks.  rebuild_major numbers its vectors from 0 again.
C1_NeverReused ==
    [][/\ \A i \in Range(alloc'.last) : i \notin alloc.ever
       /\ ret'.op = "add_chunks" =>
            \A i \in Range(alloc'.last) : \A j \in alloc.added : i > j]_vars

\* C1 amended: between two rebuilds ids are never reused.  Every id that
\* add_chunks assigns is larger than every id assigned by or since the last
\* rebuild_major (or the migration), and the ids of one call increase.
C1_NoReuseSinceRebuild ==
    [][ret'.op = "add_chunks" =>
        /\ Increasing(alloc'.last)
        /\ \A i \in Range(alloc'.last) : \A j \in alloc.epoch : i > j]_vars

\* An add_chunks that assigned ids on top of a non-empty Major.
C1_Witness ==
    /\ ret.op = "add_chunks"
    /\ Len(alloc.last) > 0
    /\ CurState.major_vector_count > 0

\* ------------------------------------------------------------------- C2
\* The results of file_path in a result list.
ResultsOf(results, file_path) ==
    {i \in DOMAIN results : results[i].file_path = file_path}

\* C2: a file that is not tracked (from mark_file_stale until its chunks are
\* added again) appears in no result of any filtered search, whichever way
\* its vectors came into the index.
C2_StaleFileHidden ==
    \A f \in FilePaths \ DOMAIN CurState.indexed_file_hashes :
        \A q \in RawQueries, k \in 1..MaxTopK :
            \A results \in SearchResults(disk, mem, q, k, TRUE) :
                ResultsOf(results, f) = {}

\* A filtered search that answered from another file while a stale file's
\* vector is still stored.
C2_Witness ==
    /\ ret.op = "search"
    /\ ret.args[3]
    /\ Len(ret.value) > 0
    /\ \E f \in FilePaths \ DOMAIN CurState.indexed_file_hashes :
          \E i \in DOMAIN MajorMeta : MajorMeta[i].file_path = f

\* ------------------------------------------------------------------- C3
\* C3: add_chunks for a tracked file marks the file's recorded ids stale,
\* replaces the record by the new ids with tier minor and the new hash, and
\* a filtered search then shows the file only through the new vectors, once
\* per chunk_index.
C3_ReAddReplaces ==
    [][(/\ ret'.op = "add_chunks"
        /\ ret'.value[1] > 0
        /\ ret'.args[1] \in DOMAIN CurState.indexed_file_hashes) =>
        LET f == ret'.args[1]
            old == CurState.indexed_file_hashes[f].vector_ids
            after == LoadState(disk', mem')
        IN  /\ Range(old) \subseteq Range(after.stale_vector_ids)
            /\ after.indexed_file_hashes[f] =
                    [hash |-> IF ret'.args[2] = NoHash THEN "" ELSE ret'.args[2],
                     tier |-> "minor",
                     vector_ids |-> alloc'.last]
            /\ \A q \in RawQueries, k \in 1..MaxTopK :
                  \A results \in SearchResults(disk', mem', q, k, TRUE) :
                     \A i \in ResultsOf(results, f) :
                        /\ results[i].vector_id \in Range(alloc'.last)
                        /\ results[i].vector_id \notin Range(old)
                        /\ \A j \in ResultsOf(results, f) :
                              results[j].chunk_index = results[i].chunk_index
                                  => j = i]_vars

\* A file was added again: its old vector is stored and stale, its record
\* holds the new ids.
C3_Witness ==
    /\ ret.op = "add_chunks"
    /\ Len(alloc.last) > 0
    /\ \E i \in DOMAIN MinorMeta :
          /\ MinorMeta[i].file_path = ret.args[1]
          /\ MinorMeta[i].id \in StaleIds
    /\ CurState.indexed_file_hashes[ret.args[1]].vector_ids = alloc.last

\* ------------------------------------------------------------------- C4
SameChunk(r1, r2) ==
    r1.file_path = r2.file_path /\ r1.chunk_index = r2.chunk_index

\* C4: whatever the tiers hand to the merge, the returned list is sorted by
\* non-increasing similarity, holds each (file_path, chunk_index) once, and
\* the occurrence kept is one with the highest similarity among the hits.
C4_SortedDeduplicated ==
    \A q \in RawQueries, k \in 1..MaxTopK, fs \in BOOLEAN :
        \A hits \in SearchHits(disk, mem, q, k, fs) :
            LET results == MergeResults(hits, k)
            IN  /\ \A i, j \in DOMAIN results :
                      i < j => /\ results[i].similarity_score
                                    >= results[j].similarity_score
                               /\ ~SameChunk(results[i], results[j])
                /\ \A i \in DOMAIN results :
                      /\ \E h \in DOMAIN hits : hits[h] = results[i]
                      /\ \A h \in DOMAIN hits :
                            SameChunk(hits[h], results[i]) =>
                                results[i].similarity_score
                                    >= hits[h].similarity_score

\* A search answered with the Minor copy of a chunk that Major also holds
\* with a lower similarity.
C4_Witness ==
    /\ ret.op = "search"
    /\ \E i \in DOMAIN ret.value :
          /\ ret.value[i].tier = "minor"
          /\ \E p \in DOMAIN MajorMeta :
                /\ MajorMeta[p].file_path = ret.value[i].file_path
                /\ MajorMeta[p].chunk_index = ret.value[i].chunk_index
                /\ InnerProduct(NormalizeL2(ret.args[1]),
                                LoadMajor(disk, mem).index.val[p])
                      < ret.value[i].similarity_score

\* ------------------------------------------------------------------- C5
\* C5: compact moves every Minor vector into Major: the Major count grows by
\* the Minor count, Minor is empty and its files are gone, every entry of
\* tier minor becomes tier major; with an empty Minor nothing changes.
C5_CompactPreservesCount ==
    [][ret'.op = "compact" =>
        LET after == LoadState(disk', mem')
            files == CurState.indexed_file_hashes
        IN  IF MinorCount = 0
            THEN /\ disk' = disk
                 /\ after = CurState
                 /\ LoadMajor(disk', mem') = LoadMajor(disk, mem)
                 /\ LoadMinor(disk', mem') = LoadMinor(disk, mem)
            ELSE /\ NTotal(LoadMajor(disk', mem').index) = MajorCount + MinorCount
                 /\ Len(LoadMajor(disk', mem').meta.val)
                        = Len(MajorMeta) + Len(MinorMeta)
                 /\ after.major_vector_count
                        = CurState.major_vector_count + CurState.minor_vector_count
                 /\ after.minor_vector_count = 0
                 /\ ~LoadMinor(disk', mem').index.some
                 /\ ~disk'.minor_index.some /\ ~disk'.minor_meta.some
                 /\ DOMAIN after.indexed_file_hashes = DOMAIN files
                 /\ \A p \in DOMAIN files :
                       after.indexed_file_hashes[p] =
                            [files[p] EXCEPT !.tier = "major"]]_vars

\* A compaction that merged a non-empty Minor into a non-empty Major: the
\* entry with a hash came through add_chunks, the other through a rebuild
\* or the migration.
C5_Witness ==
    /\ ret.op = "compact"
    /\ ret.value = <<"success">>
    /\ MajorCount >= 2
    /\ \E p, r \in DOMAIN CurState.indexed_file_hashes :
          /\ CurState.indexed_file_hashes[p].hash = "h1"
          /\ CurState.indexed_file_hashes[r].hash = ""

\* ------------------------------------------------------------------- C6
\* C6: compact leaves stale_vector_ids as it is, and a stale vector of
\* Minor is stored in Major afterwards and is still in no filtered result.
C6_StaleSurvivesCompact ==
    [][ret'.op = "compact" =>
        /\ LoadState(disk', mem').stale_vector_ids = CurState.stale_vector_ids
        /\ \A i \in DOMAIN MinorMeta :
              MinorMeta[i].id \in StaleIds =>
                /\ \E p \in DOMAIN LoadMajor(disk', mem').meta.val :
                      LoadMajor(disk', mem').meta.val[p] = MinorMeta[i]
                /\ \A q \in RawQueries, k \in 1..MaxTopK :
                      \A results \in SearchResults(disk', mem', q, k, TRUE) :
                         \A r \in DOMAIN results :
                            results[r].vector_id # MinorMeta[i].id]_vars

\* A compaction whose only vector was stale in Minor.
C6_Witness ==
    /\ ret.op = "compact"
    /\ ret.value = <<"success">>
    /\ Len(MajorMeta) = 1
    /\ MajorMeta[1].id \in StaleIds

\* ------------------------------------------------------------------- C7
\* What rebuild_major(C, E) is to leave, n = len(C).
RebuiltIndex(n) ==
    LET after == LoadState(disk', mem')
        files == after.indexed_file_hashes
    IN  /\ NTotal(LoadMajor(disk', mem').index)
                + NTotal(LoadMinor(disk', mem').index) = n
        /\ ~LoadMinor(disk', mem').index.some
        /\ ~disk'.minor_index.some /\ ~disk'.minor_meta.some
        /\ after.minor_vector_count = 0
        /\ after.stale_vector_ids = << >>
        /\ \A id \in 0..(n - 1) :
              \E p \in DOMAIN files :
                 /\ \E i \in DOMAIN files[p].vector_ids :
                       /\ files[p].vector_ids[i] = id
                       /\ \A j \in DOMAIN files[p].vector_ids :
                             files[p].vector_ids[j] = id => j = i
                 /\ \A r \in DOMAIN files :
                       id \in Range(files[r].vector_ids) => r = p
        /\ \A p \in DOMAIN files :
              Range(files[p].vector_ids) \subseteq 0..(n - 1)

\* C7 as stated: every rebuild_major(C, E) leaves the rebuilt index,
\* also the call with no chunks.
C7_RebuildAnyInput ==
    [][ret'.op = "rebuild_major" => RebuiltIndex(ret'.args[1])]_vars

\* C7 amended: rebuild_major(C, E) with at least one chunk leaves the
\* rebuilt index; with no chunk it reports an error and changes nothing.
C7_RebuildNonEmpty ==
    [][ret'.op = "rebuild_major" =>
        IF ret'.args[1] > 0
        THEN RebuiltIndex(ret'.args[1]) /\ ret'.value = <<"success">>
        ELSE /\ ret'.value = <<"error">>
             /\ disk' = disk /\ mem' = mem]_vars

\* A rebuild over the chunks of two files.
C7_Witness ==
    /\ ret.op = "rebuild_major"
    /\ ret.args[1] >= 2
    /\ DOMAIN CurState.indexed_file_hashes = FilePaths

\* ------------------------------------------------------------------- C8
\* C8: every id stored in Major or Minor is live in exactly one entry of
\* indexed_files or is stale, never both; live and stale ids together are
\* the ids allocated by and since the last rebuild.
C8_LiveOrStale ==
    /\ \A id \in StoredIds :
          /\ Cardinality(OwnersOf(id)) <= 1
          /\ (OwnersOf(id) # {}) # (id \in StaleIds)
    /\ LiveIds \cup StaleIds = StoredIds
    /\ StoredIds = alloc.epoch
    /\ \A p \in DOMAIN CurState.indexed_file_hashes :
          Range(CurState.indexed_file_hashes[p].vector_ids) \subseteq StoredIds

\* Live and stale ids side by side, in both tiers.
C8_Witness ==
    /\ LiveIds # {}
    /\ StaleIds # {}
    /\ MajorMeta # << >>
    /\ MinorMeta # << >>

\* ------------------------------------------------------------------- C9
\* C9: also after a crash between the index write and the state write of
\* add_chunks or compact, the manager opened next assigns, at every
\* add_chunks, ids that no stored vector carries (in the prior consistent
\* state as well as in a self-corrected one).
C9_CrashRecovery ==
    [][ret'.op = "add_chunks" => Range(alloc'.last) \cap StoredIds = {}]_vars

\* ------------------------------------------------------------------ C10
\* C10: whenever no thread is inside a call, the index is as some serial
\* order of the calls leaves it: no two stored vectors carry the same id,
\* the Minor count is the number of Minor vectors and of their metadata,
\* and every stored id is live in one file's entry or stale (no update of
\* indexed_files or stale_vector_ids is lost).
C10_MutuallyExclusive ==
    (\A t \in Threads : threads[t].pc = "idle") =>
        /\ Cardinality(StoredIds) = Len(MajorMeta) + Len(MinorMeta)
        /\ CurState.minor_vector_count = MinorCount
        /\ MinorCount = Len(MinorMeta)
        /\ \A id \in StoredIds :
              /\ Cardinality(OwnersOf(id)) <= 1
              /\ (OwnersOf(id) # {}) # (id \in StaleIds)

\* ------------------------------------------------------------------ C11
\* C11: a search that ran beside a compaction returns a result the same
\* query gives on the index as one of the calls completed around it left
\* it (before the compaction started or after it completed).
C11_SearchSnapshot ==
    (search.pc = "done" /\ search.closed) => search.result \in search.allowed

\* ----------------------------------------------------------- scan_directory
\* The order in which iterdir lists the directory.
Listing == <<"a", "b">>

\* Mutant: an unknown error is counted as failed without its category.
Counted_NoCategory(stats, status) ==
    CASE status = "success" ->
            [stats EXCEPT !.successful_files = @ + 1]
      [] status = "permission_denied" ->
            [stats EXCEPT !.permission_denied_files = @ + 1,
                          !.failed_files = @ + 1]
      [] status = "skipped" -> stats
      [] OTHER -> [stats EXCEPT !.failed_files = @ + 1]

\* The statistics after a future's status is counted.
Counted(stats, status) ==
    LET category ==
            CASE status = "success" ->
                    [stats EXCEPT !.successful_files = @ + 1]
              [] status = "permission_denied" ->
                    [stats EXCEPT !.permission_denied_files = @ + 1]
              [] status = "size_limit_exceeded" ->
                    [stats EXCEPT !.size_limit_exceeded_files = @ + 1]
              [] status = "encoding_error" ->
                    [stats EXCEPT !.encoding_error_files = @ + 1]
              [] status = "file_not_found" ->
                    [stats EXCEPT !.file_not_found_files = @ + 1]
              [] status = "timeout" ->
                    [stats EXCEPT !.timeout_files = @ + 1]
              [] status = "skipped" -> stats
              [] OTHER -> [stats EXCEPT !.unknown_error_files = @ + 1]
    IN  IF status # "success" /\ status # "skipped"
        THEN [category EXCEPT !.failed_files = @ + 1]
        ELSE category

\* SIGINT or SIGTERM arrives while scan_directory runs.
RequestShutdown ==
    /\ scan.pc \in {"discover", "collect", "drain"}
    /\ ~scan.shutdown_requested
    /\ scan' = [scan EXCEPT !.shutdown_requested = TRUE]
    /\ UNCHANGED <<tree, store, workers>>
    /\ UNCHANGED indexVars

\* scan_directory(directory_path, max_workers, force) is called in a new
\* process: discovery starts.
ScanBegin(force) ==
    /\ scan.pc \in {"idle", "returned"}
    /\ scan.scans < MaxScans
    /\ \A w \in Workers : workers[w].pc = "idle"
    /\ scan' = [NoScan EXCEPT
            !.pc = "discover",
            !.force = force,
            !.entries = Listing,
            !.start = store.db.file_metadata,
            !.touched_before = scan.touched,
            !.scans = scan.scans + 1]
    /\ UNCHANGED <<tree, store, workers>>
    /\ UNCHANGED indexVars

\* discover_files visits one entry, or returns: on shutdown with what it has,
\* else at the end of the listing.  scan_directory then resets the
\* statistics and returns at once when no file was found, or submits one
\* task per file.
Discover ==
    /\ scan.pc = "discover"
    /\ IF scan.shutdown_requested \/ scan.entries = << >>
       THEN LET stats == [ZeroStats EXCEPT
                            !.total_files = Len(scan.all_files)]
            IN  IF Len(scan.all_files) = 0
                THEN scan' = [scan EXCEPT
                        !.pc = "returned",
                        !.stats = stats,
                        !.results = [stats |-> stats, interrupted |-> FALSE]]
                ELSE scan' = [scan EXCEPT
                        !.pc = "collect",
                        !.stats = stats,
                        !.queue = scan.all_files]
       ELSE scan' = [scan EXCEPT
                !.all_files = Append(@, Head(scan.entries)),
                !.entries = Tail(@)]
    /\ UNCHANGED <<tree, store, workers>>
    /\ UNCHANGED indexVars

\* All the statements of insert_content_analysis from number stmt on.
RECURSIVE ExecuteFrom(_, _, _)
ExecuteFrom(t, stmt, analysis) ==
    IF stmt > Len(Statements) THEN t
    ELSE ExecuteFrom(Execute(t, stmt, analysis), stmt + 1, analysis)

\* How the rest of process_single_file goes for the Store: both writes
\* succeed, or insert_file_metadata raises, or insert_content_analysis does.
Writes == {"ok", "metadata_error", "content_error"}

\* process_single_file from the extracted metadata to its return, with no
\* other thread's step in between.
ProcessRest(w, writes) ==
    LET me == workers[w]
        now == tree[me.file_path]
        db1 == InsertFileMetadata(store.db, me.metadata)
        analysis == [file_path |-> me.file_path, file_hash |-> now.mtime]
        content == NewCall("insert_content_analysis")
        reads == me.metadata.kind = "text" /\ now.kind = "text"
    IN  /\ me.pc = "metadata"
        /\ store.writer = 0
        /\ CASE writes = "metadata_error" ->
                    /\ UNCHANGED store
                    /\ Return(w, Raised(me.call), "unknown_error")
             [] writes = "content_error" ->
                    /\ reads
                    /\ store' = [store EXCEPT !.db = db1]
                    /\ Return(w, Raised(content), "unknown_error")
             [] OTHER ->
                    IF reads
                    THEN /\ store' = [store EXCEPT
                                !.db = ExecuteFrom(db1, 1, analysis)]
                         /\ Return(w, Returned(content),
                                   me.metadata.processing_status)
                    ELSE /\ store' = [store EXCEPT !.db = db1]
                         /\ Return(w, Returned(me.call),
                                   IF me.metadata.kind # "text"
                                   THEN me.metadata.processing_status
                                   ELSE IF now.kind = "empty" THEN "success"
                                   ELSE "permission_denied")
        /\ UNCHANGED tree
        /\ UNCHANGED indexState

\* A free thread of the pool takes the next task.
WorkerTake(w) ==
    /\ scan.pc = "collect"
    /\ scan.queue # << >>
    /\ w = FreeWorker
    /\ ProcessBegin(w, Head(scan.queue), scan.force, TRUE)

\* as_completed yields a completed future: on shutdown the pending tasks are
\* cancelled and the loop is left before the future is counted, else its
\* status is counted; the loop ends with the last future.
Collect ==
    /\ scan.pc = "collect"
    /\ scan.done # << >>
    /\ IF scan.shutdown_requested
       THEN scan' = [scan EXCEPT !.pc = "drain", !.queue = << >>]
       ELSE scan' = [scan EXCEPT
                !.pc = IF scan.yielded + 1 = Len(scan.all_files)
                       THEN "drain" ELSE "collect",
                !.yielded = @ + 1,
                !.done = Tail(@),
                !.stats = Counted(@, Head(scan.done).status)]
    /\ UNCHANGED <<tree, store, workers>>
    /\ UNCHANGED indexVars

\* executor.shutdown(wait=True) has waited for the running tasks: the
\* statistics are recorded (processing_stats has no interrupted column) and
\* the results returned.
ScanReturn ==
    /\ scan.pc = "drain"
    /\ \A w \in Workers : workers[w].pc = "idle"
    /\ scan' = [scan EXCEPT
            !.pc = "returned",
            !.recorded = Append(@, scan.stats),
            !.results = [stats |-> scan.stats,
                         interrupted |-> scan.shutdown_requested]]
    /\ UNCHANGED <<tree, store, workers>>
    /\ UNCHANGED indexVars

\* Scans of a directory of text files that change between the scans, each
\* interrupted at any point.
NextScan ==
    \/ \E force \in BOOLEAN : ScanBegin(force)
    \/ Discover
    \/ \E w \in Workers : WorkerTake(w)
    \/ Collect
    \/ ScanReturn
    \/ RequestShutdown
    \/ \E w \in Workers, writes \in Writes : ProcessRest(w, writes)
    \/ \E p \in FilePaths, k \in FileKinds :
            scan.pc = "returned" /\ Touch(p, k)

SpecScan == InitIngest /\ [][NextScan]_vars

\* ------------------------------------------------- observers of the Store
\* The rows of the tables that describe the content of file_path.
AnalysisRows(db, file_path) ==
    db.content_analysis[file_path]
ChunkRows(db, file_path) ==
    {r \in db.text_chunks : r.file_path = file_path}
EmbeddingIndexRows(db, file_path) ==
    {r \in db.embeddings_index : r.file_path = file_path}
FtsRows(db, file_path) ==
    {r \in db.content_fts : r.file_path = file_path}
Dependents(db, file_path) ==
    [analysis |-> AnalysisRows(db, file_path),
     chunks |-> ChunkRows(db, file_path),
     embeddings |-> EmbeddingIndexRows(db, file_path),
     fts |-> FtsRows(db, file_path)]

\* ------------------------------------------------- observers of the scan
\* A worker takes the next task of the pool in this step.
TaskStarted ==
    /\ scan.pc = "collect"
    /\ scan'.pc = "collect"
    /\ scan.queue # << >>
    /\ scan'.queue = Tail(scan.queue)

\* The task taken is processed: its metadata is extracted for the Store.
Processed ==
    \E w \in Workers : workers[w].pc = "idle" /\ workers'[w].pc = "metadata"

\* scan_directory returns after the pool was drained.
Returns == scan.pc = "drain" /\ scan'.pc = "returned"

\* The outcomes of file_path among the finished tasks.
OutcomesOf(file_path) ==
    {i \in DOMAIN scan.finished : scan.finished[i].file_path = file_path}

\* The finished tasks with this status.
WithStatus(status) ==
    {i \in DOMAIN scan.finished : scan.finished[i].status = status}

\* The sum of the per-category failure counters.
CategorySum(stats) ==
    stats.permission_denied_files + stats.size_limit_exceeded_files
        + stats.encoding_error_files + stats.file_not_found_files
        + stats.timeout_files + stats.unknown_error_files

\* ------------------------------------------------------------------ C12
\* add_chunks handed rows # len(chunks) or cols # embedding_dim.
Mismatched(chunks, rows, cols) == rows # Len(chunks) \/ cols # EmbeddingDim

\* C12 as stated: every add_chunks call with a mismatched embeddings array
\* fails with an error and leaves files and loaded objects as they were.
C12_MismatchRejected ==
    [][(ret'.op = "raise" /\ disk' = disk /\ mem' = mem)
        \/ ~ \E c \in AddInputs, h \in FileHashes :
                \E rows \in EmbeddingRows(c), cols \in EmbeddingCols :
                    /\ Mismatched(c, rows, cols)
                    /\ AddChunksChecked(c, rows, cols, h)]_vars

\* C12 for calls with at least one chunk: every such add_chunks call with a
\* mismatched embeddings array raises ValueError and leaves the files and
\* the loaded objects (counts, Minor contents, indexed_files, stale ids) as
\* they were.
C12_NonEmptyMismatchRejected ==
    [][(ret'.op = "raise" /\ ret'.value[1] = "ValueError"
            /\ disk' = disk /\ mem' = mem)
        \/ ~ \E c \in AddInputs, h \in FileHashes :
                \E rows \in EmbeddingRows(c), cols \in EmbeddingCols :
                    /\ Len(c) > 0
                    /\ Mismatched(c, rows, cols)
                    /\ AddChunksChecked(c, rows, cols, h)]_vars

\* A mismatched call was rejected on an index that holds vectors.
C12_Rejected ==
    /\ ret.op = "raise"
    /\ ret.args = <<"add_chunks">>
    /\ StoredIds # {}
    /\ DOMAIN CurState.indexed_file_hashes # {}

\* ------------------------------------------------------------------ C14
\* C14: the Store holds at most one ContentAnalysis row for a path, the one
\* of the latest ingestion.
C14_OneAnalysisRow ==
    \A p \in FilePaths : Len(AnalysisRows(store.db, p)) <= 1

\* ------------------------------------------------------------------ C15
\* C15: once a path whose current version yields no content has been
\* ingested in that version (its FileRecord carries the file's mtime and no
\* worker is on it), the Store holds no chunk, analysis, embedding or FTS row
\* for the path.
C15_NoRowsOfEarlierVersion ==
    \A p \in FilePaths :
        (/\ Settled(p)
         /\ tree[p].kind # "text"
         /\ store.db.file_metadata[p].some
         /\ store.db.file_metadata[p].modified_date = IsoFormat(tree[p].mtime))
            => /\ AnalysisRows(store.db, p) = << >>
               /\ ChunkRows(store.db, p) = {}
               /\ EmbeddingIndexRows(store.db, p) = {}
               /\ FtsRows(store.db, p) = {}

\* ------------------------------------------------------------------ C16
\* C16: at every instant every chunk the Store holds for a path is of the
\* file version (hash) of the FileRecord the Store holds for that path.
C16_ChunksOfRecordVersion ==
    \A p \in FilePaths :
        \A r \in ChunkRows(store.db, p) :
            /\ store.db.file_metadata[p].some
            /\ r.file_hash = store.db.file_metadata[p].file_hash

\* ------------------------------------------------------------------ C17
\* The dependent rows of version v of file_path, added to the rows old.
NewDependents(old, file_path, v) ==
    LET rows == {[file_path |-> file_path, chunk_index |-> i,
                  file_hash |-> v] : i \in 0..(ChunksPerFile - 1)}
    IN  [analysis |-> Append(old.analysis,
                             [file_path |-> file_path, file_hash |-> v]),
         chunks |-> rows,
         embeddings |-> rows,
         fts |-> {[file_path |-> file_path, content_id |-> v]}]

C19_InterruptedSummary ==
    (scan.pc = "returned" /\ scan.shutdown_requested) =>
        /\ scan.results.interrupted
        /\ scan.results.stats.successful_files
                = Cardinality(WithStatus("success"))
        /\ scan.results.stats.failed_files
                = Len(scan.finished) - Cardinality(WithStatus("success"))
                    - Cardinality(WithStatus("skipped"))
        /\ Len(scan.recorded) = 1
        /\ "interrupted" \in DOMAIN scan.recorded[1]
        /\ scan.recorded[1].successful_files
                = scan.results.stats.successful_files

\* ------------------------------------------------------------------ C20
\* C20: in the statistics failed_files is the sum of the failure categories
\* and successful_files + failed_files is at most total_files; no file has
\* two outcomes; and a scan that was not interrupted returns with exactly
\* one outcome for every discovered file, whatever failed, each success and
\* each failure counted.
C20_FailuresCounted ==
    /\ scan.stats.failed_files = CategorySum(scan.stats)
    /\ scan.stats.successful_files + scan.stats.failed_files
            <= scan.stats.total_files
    /\ \A p \in FilePaths : Cardinality(OutcomesOf(p)) <= 1
    /\ (scan.pc = "returned" /\ ~scan.shutdown_requested) =>
            /\ \A i \in DOMAIN scan.all_files :
                    Cardinality(OutcomesOf(scan.all_files[i])) = 1
            /\ scan.results.stats.total_files = Len(scan.all_files)
            /\ scan.results.stats.successful_files
                    = Cardinality(WithStatus("success"))
            /\ scan.results.stats.failed_files
                    = Len(scan.finished) - Cardinality(WithStatus("success"))
                        - Cardinality(WithStatus("skipped"))

\* A scan returned, not interrupted, with one file failed and the other
\* ingested.
C20_Witness ==
    /\ scan.pc = "returned"
    /\ ~scan.shutdown_requested
    /\ scan.results.stats.failed_files = 1
    /\ scan.results.stats.unknown_error_files = 1
    /\ scan.results.stats.successful_files = 1
\* ------------------------------------------------------------------ C21
\* The discovered files whose mtime differed from the stored modified date
\* (none stored differs) when the scan began.
ChangedAtStart ==
    {p \in Range(scan.all_files) :
        scan.start[p].modified_date # IsoFormat(tree[p].mtime)}

\* C21: the summary of a scan that was not interrupted has total_files = the
\* number of files selected for processing (the changed ones, or all N with
\* force) and skipped_unchanged = the number of discovered files left out
\* as unchanged.
C21_SelectedAndSkippedCounts ==
    (scan.pc = "returned" /\ ~scan.shutdown_requested) =>
        LET N == Len(scan.all_files)
            k == IF scan.force THEN N ELSE Cardinality(ChangedAtStart)
        IN  /\ scan.results.stats.total_files = k
            /\ "skipped_unchanged" \in DOMAIN scan.results.stats
            /\ scan.results.stats.skipped_unchanged = N - k
\* ------------------------------------------------------------------ C22
\* The ids by which search identifies the vectors of file_path in a tier's
\* metadata, in index order.
SearchIdsOf(metadata, file_path) ==
    LET at == SelectSeq([i \in DOMAIN metadata |-> i],
                        LAMBDA i : metadata[i].file_path = file_path)
    IN  [k \in DOMAIN at |-> metadata[at[k]].id]

\* C22: migrate_from_legacy migrates exactly when the legacy index exists
\* and Major does not: it then returns True, the legacy files have become
\* the Major files, major_vector_count is the legacy vector count and
\* indexed_files holds exactly the files of the metadata, each with tier
\* major and the ids by which search identifies its vectors; in every other
\* case it returns False and leaves every file as it was.
C22_MigratesOnce ==
    [][ret'.op = "open" =>
        IF disk.legacy_index.some /\ ~disk.major_index.some
        THEN LET state == disk'.state.val
                 files == state.indexed_file_hashes
                 meta == disk.legacy_meta.val
             IN  /\ ret'.value = <<TRUE>>
                 /\ disk'.major_index = disk.legacy_index
                 /\ disk'.major_meta = disk.legacy_meta
                 /\ ~disk'.legacy_index.some
                 /\ ~disk'.legacy_meta.some
                 /\ disk'.state.some
                 /\ state.major_vector_count = Len(disk.legacy_index.val)
                 /\ DOMAIN files = {meta[i].file_path : i \in DOMAIN meta}
                 /\ \A p \in DOMAIN files :
                        /\ files[p].tier = "major"
                        /\ files[p].vector_ids = SearchIdsOf(meta, p)
        ELSE /\ ret'.value = <<FALSE>>
             /\ disk' = disk]_vars

\* A process start has just migrated a legacy directory of two vectors.
C22_Witness ==
    /\ ret.op = "open"
    /\ ret.value = <<TRUE>>
    /\ disk.major_index.some
    /\ ~disk.legacy_index.some
    /\ disk.state.val.major_vector_count = 2
\* ------------------------------------------------------------------ C23
\* What a manager m on directory d observes: the state it loads and the
\* number of vectors in each tier it loads (get_stats).
Observed(d, m) ==
    [state |-> LoadState(d, m),
     major |-> NTotal(LoadMajor(d, m).index),
     minor |-> NTotal(LoadMinor(d, m).index),
     major_metadata |-> LoadMajor(d, m).meta,
     minor_metadata |-> LoadMinor(d, m).meta]

\* C23: after a completed add_chunks, mark_file_stale, compact or
\* rebuild_major a new manager on the data directory observes what the
\* manager that made the call observes: the vector count of each tier, the
\* indexed files with hash, tier and ids, and the stale ids.
C23_NewManagerObservesSame ==
    ret.op \in {"add_chunks", "mark_file_stale", "compact", "rebuild_major"}
        => Observed(disk, NewManager) = Observed(disk, mem)

\* A compaction has completed on a manager with an indexed and a stale file.
C23_Witness ==
    /\ ret.op = "compact"
    /\ mem._state.some
    /\ mem._state.val.major_vector_count = 2
    /\ mem._state.val.stale_vector_ids # << >>
    /\ DOMAIN mem._state.val.indexed_file_hashes # {}
\* ------------------------------------------------------------------ C24
\* The (file_path, chunk_index) pairs that have a vector in the index whose
\* id is not stale.
LivePairs ==
    {<<MajorMeta[i].file_path, MajorMeta[i].chunk_index>> :
        i \in {j \in DOMAIN MajorMeta : MajorMeta[j].id \notin StaleIds}}
    \cup
    {<<MinorMeta[i].file_path, MinorMeta[i].chunk_index>> :
        i \in {j \in DOMAIN MinorMeta : MinorMeta[j].id \notin StaleIds}}

\* C24: search(query, top_k) returns at most top_k results, and exactly
\* top_k when at least top_k distinct (file_path, chunk_index) pairs have a
\* live vector in the index.
C24_ExactlyTopK ==
    ret.op = "search" =>
        /\ Len(ret.value) <= ret.args[2]
        /\ Cardinality(LivePairs) >= ret.args[2] =>
                Len(ret.value) = ret.args[2]
\* ------------------------------------------------------------------ C25
\* content is the chunks in order with nothing but whitespace before,
\* between and after them.
RECURSIVE TrimmedAtEdges(_, _)
TrimmedAtEdges(content, chunks) ==
    IF Len(chunks) = 0 THEN \A i \in DOMAIN content : content[i] \in Whitespace
    ELSE LET start == Find(content, 1, Whitespace, FALSE)
             end == start + Len(Head(chunks)) - 1
         IN  /\ end <= Len(content)
             /\ SubSeq(content, start, end) = Head(chunks)
             /\ TrimmedAtEdges(SubSeq(content, end + 1, Len(content)),
                               Tail(chunks))

\* The characters of a text that are not whitespace, in order.
Inked(text) == SelectSeq(text, LAMBDA c : c \notin Whitespace)

SingleUnit(op, chunk) ==
    IF op = "chunk_code" THEN Len(SplitLines(chunk)) = 1
    ELSE Len(Paragraphs(chunk)) <= 1 /\ Len(SplitSentences(chunk, 1)) = 1

\* C26: every chunk but the last of chunk_code has at most CODE_CHUNK_SIZE
\* characters and every chunk but the last of chunk_prose at most
\* PROSE_CHUNK_SIZE, unless it is a single line, paragraph or sentence.
C26_NonFinalWithinTarget ==
    ret.op \in {"chunk_code", "chunk_prose"} =>
        \A i \in 1..(Len(ret.value) - 1) :
            \/ Len(ret.value[i])
                    <= (IF ret.op = "chunk_code" THEN CODE_CHUNK_SIZE
                        ELSE PROSE_CHUNK_SIZE)
            \/ SingleUnit(ret.op, ret.value[i])

\* ------------------------------------------------------------------ C27
\* chunk_index is dense from 0 and total_chunks is the length of the list.
DenseFromZero(envelopes) ==
    \A i \in DOMAIN envelopes :
        /\ envelopes[i].metadata.chunk_index = i - 1
        /\ envelopes[i].metadata.total_chunks = Len(envelopes)

\* C27: after store_chunks(path, envelopes) the chunks stored for the path are
\* exactly the given envelopes, chunk_index dense from 0 and one common
\* total_chunks, for every envelope list including the empty one, so that no
\* chunk of an earlier store_chunks remains; a call that fails midway leaves
\* the stored chunks as they were.
C27_StoredAreGiven ==
    [][ret'.op = "store_chunks" =>
        IF ret'.value.raised
        THEN store'.db = store.db
        ELSE /\ GetAllChunks(store'.db, ret'.args[1]) = ret'.args[2]
             /\ DenseFromZero(GetAllChunks(store'.db, ret'.args[1]))]_vars

\* ------------------------------------------------------------------ C28
\* The envelopes whose index lies in [chunk_index - before, chunk_index + after].
Window(envelopes, chunk_index, before, after) ==
    SelectSeq(envelopes,
              LAMBDA e : /\ e.metadata.chunk_index >= chunk_index - before
                         /\ e.metadata.chunk_index <= chunk_index + after)

Ascending(envelopes) ==
    \A i, j \in DOMAIN envelopes :
        i < j => envelopes[i].metadata.chunk_index < envelopes[j].metadata.chunk_index

\* C28: for every chunk index and every before, after >= 0, both
\* get_adjacent_chunks return, in ascending chunk_index order, exactly the
\* chunks of the file whose index lies in [idx - before, idx + after], the
\* target among them when it exists, and the one of the database returns what
\* the one of the chunker returns for the chunks of the file.
C28_AdjacentWindow ==
    /\ ret.op = "db_get_adjacent_chunks" =>
          LET all == GetAllChunks(store.db, ret.args[1])
          IN  /\ ret.value = Window(all, ret.args[2], ret.args[3], ret.args[4])
              /\ ret.value = AdjacentChunks(all, ret.args[2], ret.args[3],
                                            ret.args[4])
              /\ Ascending(ret.value)
    /\ ret.op = "get_adjacent_chunks" =>
          /\ ret.value = Window(ret.args[1], ret.args[2], ret.args[3],
                                ret.args[4])
          /\ Ascending(ret.value)

\* A window around the last chunk of a stored file of three chunks, clipped
\* at the end of the file.
C28_Witness ==
    /\ ret.op = "db_get_adjacent_chunks"
    /\ Len(store.db.text_chunks_v2[ret.args[1]]) = 3
    /\ ret.args[2] = 2
    /\ ret.args[3] = 1
    /\ ret.args[4] = 2
    /\ Len(ret.value) = 2

\* ------------------------------------------------------------------ C29
\* The names the default denylist patterns match (linux-6.*), among DirNames.
DenylistNames == {"linux-6.8"}

\* path is one of the allowlisted paths or lies beneath one.
Allowlisted(allowlist_paths, path) ==
    \E a \in allowlist_paths :
        /\ Len(a) <= Len(path)
        /\ SubSeq(path, 1, Len(a)) = a

\* C29: a directory on allowlist_paths or beneath an allowlisted path is not
\* skipped because of a denylist pattern, the hidden-path and
\* system-directory checks still apply to it, and a parent or sibling of an
\* allowlisted path remains subject to the denylist.
C29_AllowlistOverridesDenylist ==
    ret.op = "should_skip_directory" =>
        LET allowlist_paths == ret.args[1]
            dir_path == ret.args[2]
            skip == ret.value[1]
            checked == \/ IsHiddenPath(dir_path)
                       \/ Name(dir_path) \in system_dirs
        IN  /\ (Allowlisted(allowlist_paths, dir_path) /\ ~checked) => ~skip
            /\ (Allowlisted(allowlist_paths, dir_path) /\ checked) => skip
            /\ (/\ ~Allowlisted(allowlist_paths, dir_path)
                /\ Name(dir_path) \in DenylistNames) => skip

\* ------------------------------------------------------------------ C30
\* The number of entries of edges that are of edge_type and point at target.
EdgeCount(edges, edge_type, target) ==
    Cardinality({i \in DOMAIN edges : /\ edges[i].edge_type = edge_type
                                      /\ edges[i].target_node = target})

\* The number of entries of sources whose node is target.
EntryCount(sources, target) ==
    Cardinality({i \in DOMAIN sources :
                    "file:" \o Basename(sources[i]) = target})

\* C30: every call log_autograph(context, command, offered, accepted,
\* rejected) appends to edges.csv exactly one edge per entry of accepted, one
\* per entry of rejected and one per offered source that is neither accepted
\* nor rejected (edge type ignored), each from the node
\* context:<md5(context)[:8]> to the node file:<basename(source)>, and the
\* returned edges_created is accepted + rejected + ignored.
C30_OneEdgePerSource ==
    [][ret'.op = "log_autograph" =>
        LET context == ret'.args[1]
            offered == ret'.args[3]
            accepted == ret'.args[4]
            rejected == ret'.args[5]
            ignored == {s \in Range(offered) :
                           s \notin Range(accepted) \cup Range(rejected)}
            before == disk.kg.edges
            after == disk'.kg.edges
            new == SubSeq(after, Len(before) + 1, Len(after))
            targets == {"file:" \o Basename(s) : s \in Sources}
        IN  /\ Len(after) >= Len(before)
            /\ SubSeq(after, 1, Len(before)) = before
            /\ \A i \in DOMAIN new :
                  /\ new[i].source_node
                        = (IF context = "MCP tools" THEN "context:350ba2f1"
                           ELSE "context:3643b863")
                  /\ new[i].target_node \in targets
                  /\ new[i].edge_type \in {"accepted", "rejected", "ignored"}
            /\ \A t \in targets :
                  /\ EdgeCount(new, "accepted", t) = EntryCount(accepted, t)
                  /\ EdgeCount(new, "rejected", t) = EntryCount(rejected, t)
                  /\ EdgeCount(new, "ignored", t)
                        = Cardinality({s \in ignored :
                                          "file:" \o Basename(s) = t})
            /\ ret'.value.edges_created = Len(new)
            /\ ret'.value.edges_created
                  = ret'.value.accepted + ret'.value.rejected
                      + ret'.value.ignored]_vars

\* A call on a graph that holds an edge of another context accepted one
\* source twice and ignored two offered sources.
C30_Witness ==
    /\ ret.op = "log_autograph"
    /\ Len(ret.args[4]) = 2
    /\ ret.args[4][1] = ret.args[4][2]
    /\ ret.value.ignored = 2
    /\ Len(disk.kg.edges) = 5
    /\ disk.kg.edges[1].context_summary # ret.args[1]

\* ------------------------------------------------------------------ C34
\* C34: in every state reachable by sequential calls, the metadata entry at
\* position p of Major carries vector id p and the entry at position j of
\* Minor carries vector id major_vector_count + j (positions from 0), so that
\* the ids stored in the two tiers are pairwise distinct.
C34_IdsFollowPositions ==
    /\ \A p \in DOMAIN MajorMeta : MajorMeta[p].id = p - 1
    /\ \A j \in DOMAIN MinorMeta :
          MinorMeta[j].id = CurState.major_vector_count + j - 1
    /\ Cardinality(StoredIds) = Len(MajorMeta) + Len(MinorMeta)

\* Chunks were added to Minor beside a Major that a compaction, a rebuild or
\* the migration has filled.
C34_Witness ==
    /\ ret.op = "add_chunks"
    /\ Len(MajorMeta) >= 1
    /\ Len(MinorMeta) >= 1
    /\ CurState.major_build_timestamp

\* ------------------------------------------------------------------ C31
\* The similarity-weighted number of edges of edge_type from the embedded
\* contexts to target, for a query (tenths).
Weighted(kg, query, edge_type, target) ==
    Sum([i \in DOMAIN kg.edges |->
            IF /\ kg.edges[i].edge_type = edge_type
               /\ kg.edges[i].target_node = target
               /\ kg.edges[i].source_node \in Range(kg.embedding_index)
            THEN CosineSimilarity(query, kg.edges[i].context_summary)
            ELSE 0])

\* The targets whose confidence is at least threshold.
Confident(kg, query, threshold) ==
    {t \in {kg.edges[i].target_node : i \in DOMAIN kg.edges} :
        LET accepted == Weighted(kg, query, "accepted", t)
            rejected == Weighted(kg, query, "rejected", t)
        IN  /\ accepted + rejected > 0
            /\ 10 * accepted >= threshold * (accepted + rejected)}

\* C31: suggest_sources(context, threshold) returns exactly the target nodes
\* whose confidence (similarity-weighted accepted over similarity-weighted
\* accepted plus rejected, over the edges of the top-K similar contexts) is
\* at least threshold, by descending confidence, at most max_suggestions of
\* them; a target with 3 accepted and no rejected edges is included at
\* threshold 0.5 and a target with only a rejected edge is not.
C31_SuggestsConfidentTargets ==
    (ret.op = "suggest_sources" /\ ~ret.value.raised) =>
        LET kg == disk.kg
            context == ret.args[1]
            threshold == ret.args[2]
            result == ret.value.result
            returned == {result[i].source : i \in DOMAIN result}
            expected == Confident(kg, context, threshold)
            Count(edge_type, t) ==
                Cardinality({i \in DOMAIN kg.edges :
                                /\ kg.edges[i].edge_type = edge_type
                                /\ kg.edges[i].target_node = t})
        IN  /\ Len(result) <= max_suggestions
            /\ Cardinality(returned) = Len(result)
            /\ returned \subseteq expected
            /\ Cardinality(expected) <= max_suggestions => returned = expected
            /\ \A i, j \in DOMAIN result :
                  i < j => result[i].confidence >= result[j].confidence
            /\ \A t \in {kg.edges[i].target_node : i \in DOMAIN kg.edges} :
                  /\ (/\ context = "working on MCP tools"
                      /\ threshold = 5
                      /\ Count("accepted", t) >= 3
                      /\ Count("rejected", t) = 0
                      /\ \A i \in DOMAIN kg.edges :
                            kg.edges[i].context_summary = "MCP tools")
                        => t \in returned
                  /\ (Count("accepted", t) = 0 /\ Count("rejected", t) >= 1)
                        => t \notin returned

\* ------------------------------------------------------------------ C32
\* s is t or t with rows appended.
Extends(s, t) == Len(s) >= Len(t) /\ SubSeq(s, 1, Len(t)) = t

\* C32: nodes.csv and edges.csv are append-only: every call leaves each row
\* written earlier in place and unchanged, and query_autographs,
\* suggest_sources and get_stats write no row.
C32_AppendOnly ==
    [][/\ Extends(disk'.kg.nodes, disk.kg.nodes)
       /\ Extends(disk'.kg.edges, disk.kg.edges)
       /\ ret'.op \in {"query_autographs", "suggest_sources", "get_stats"}
             => /\ disk'.kg.nodes = disk.kg.nodes
                /\ disk'.kg.edges = disk.kg.edges]_vars

\* The graph was read after a call logged a context and a source that an
\* earlier call had logged.
C32_Witness ==
    /\ ret.op = "query_autographs"
    /\ ~ret.value.raised
    /\ Len(ret.value.result) >= 2
    /\ Len(disk.kg.edges) >= 3
    /\ Len(disk.kg.nodes) = 2

\* ------------------------------------------------------------------ C33
\* C33: a failure while reading the knowledge-graph files makes
\* query_autographs, suggest_sources and get_stats return an empty result
\* instead of raising, while a failure while writing an edge in log_autograph
\* reaches the caller.
C33_ReadsDegradeWritesRaise ==
    /\ ret.op \in {"query_autographs", "suggest_sources", "get_stats"}
          => /\ ~ret.value.raised
             /\ (disk.kg.damage = "weight" /\ ret.op # "get_stats")
                   => ret.value.result = << >>
    /\ (/\ ret.op = "log_autograph"
        /\ disk.kg.damage = "unwritable"
        /\ ret.args[3] # << >>)
          => ret.value.raised

\* ------------------------------------------------------------------ C39
\* C39: after any sequence of log_autograph calls nodes.csv holds at most one
\* row per node_id: a context summary or a source basename logged again
\* reuses its node.
C39_OneRowPerNode ==
    \A i, j \in DOMAIN disk.kg.nodes :
        disk.kg.nodes[i].node_id = disk.kg.nodes[j].node_id => i = j

\* A call logged the context and the basename of an earlier call, under
\* another path.
C39_Witness ==
    /\ ret.op = "log_autograph"
    /\ Len(ret.args[4]) = 1
    /\ Len(disk.kg.edges) = 2
    /\ Len(disk.kg.nodes) = 2
    /\ disk.kg.edges[1].source_node = disk.kg.edges[2].source_node
    /\ disk.kg.edges[1].target_node = disk.kg.edges[2].target_node
    /\ disk.kg.nodes[2].label # ret.args[4][1]

\* ------------------------------------------------------------------ C37
\* The state file, the default state when the directory has none.
PersistedState ==
    IF disk.state.some THEN FromDict(disk.state.val) ELSE EmptyIndexState

\* The metadata entries of a tier's metadata file.
Entries(meta) == IF meta.some THEN Len(meta.val) ELSE 0

HoldsCurrentContent(db, file_path) ==
    LET rows == db.content_analysis[file_path]
        chunks == {r \in db.text_chunks : r.file_path = file_path}
    IN  /\ rows # << >>
        /\ rows[Len(rows)].file_hash = tree[file_path].mtime
        /\ Cardinality(chunks) = ChunksPerFile
        /\ \A r \in chunks : r.file_hash = tree[file_path].mtime

\* C38: whenever process_single_file without force skips a text file as
\* unchanged, the Store holds the analysis and the chunks of the file's
\* current content; a file whose FileRecord was written by an ingestion that
\* failed before its analysis and chunks were stored is not skipped.
C38_SkippedFilesAreStored ==
    (/\ ret.op = "process_single_file"
     /\ ret.value = <<"skipped", NoCall>>
     /\ ~scan.shutdown_requested
     /\ \A w \in Workers : workers[w].pc = "idle"
     /\ tree[ret.args[1]].kind = "text")
        => HoldsCurrentContent(store.db, ret.args[1])

\* ------------------------------------------------------------------ C35
\* C35: the add-only build adds vectors only for new or changed files: run on
\* an unchanged database directly after an add-only run, a rebuild_major or a
\* legacy migration, it adds no vector and marks no vector stale.
C35_AddOnlyIsIdempotent ==
    [][(/\ ret'.op = "add_only"
        /\ \/ ret.op \in {"add_only", "rebuild_major"}
           \/ ret.op = "open" /\ ret.value = <<TRUE>>)
          => /\ ret'.value = <<0>>
             /\ disk' = disk]_vars

ServerOps == {"is_faiss_available", "semantic_search"}

\* C40: while the index on disk does not change, every call of the tool
\* server gets the same answer from the availability test, and
\* semantic_search queries the index only when the index manager and the
\* embedding model are loaded and returns an empty list otherwise.
C40_AvailabilityIsStable ==
    [][/\ (ret.op \in ServerOps /\ ret'.op \in ServerOps /\ disk' = disk)
            => ret'.value.available = ret.value.available
       /\ ret'.op = "semantic_search"
            => /\ ret'.value.queried
                    => server'.faiss_manager /\ server'.sentence_model
               /\ ~(server'.faiss_manager /\ server'.sentence_model)
                    => ret'.value.result = << >>]_vars

====
